---------------------------- MODULE Spec2Model ----------------------------
(***************************************************************************)
(* Car-finder server: the expiring response cache (fetchFromAPI), the      *)
(* fallback generator, the record mapper, the filter/sort/paginate         *)
(* pipeline of searchCars, the GET /api/cars/search route and the account  *)
(* deletion route.                                                         *)
(*                                                                         *)
(* Conventions.  A JavaScript string is a tuple of one-character strings   *)
(* ("Ford" is <<"F","o","r","d">>), so that toLowerCase, trim, split,      *)
(* join and includes are computed character by character.  A JavaScript    *)
(* object with optional properties is a function whose DOMAIN holds the    *)
(* properties that are present.  Numbers are integers; NaN is a reserved   *)
(* integer that every comparison treats as JavaScript does (always false). *)
(* Date.now() is counted in milliseconds from the start of the run.        *)
(***************************************************************************)
EXTENDS Integers, Sequences, FiniteSets, TLC

VARIABLES
  now,          \* Date.now(), in ms since the process started
  ticks,        \* number of clock advances so far
  currentYear,  \* new Date().getFullYear()
  cache,        \* car-api.ts `cache`: url -> [timestamp, data]
  transport,    \* url -> number of times node-fetch was invoked for it
  reqs,         \* request id -> context of the handler serving it
  users,        \* storage: user id -> user record
  currentUserId,\* MemStorage.currentUserId
  sessions,     \* session id -> what the session layer holds for it
  filters,        \* HomePage `filters` state
  page,           \* HomePage `page` state
  hasMore,        \* HomePage `hasMore` state
  carsData,       \* `data` of the HomePage useQuery (keepPreviousData)
  queries,        \* query cache of the client: query key -> status and data
  searchHistory,  \* useSearchHistory `searchHistory` state
  wishlist,       \* WishlistProvider `wishlist` state as of the last render
  updates,        \* setWishlist updaters queued since the last render
  calls           \* the last client call of each hook, and what it was given

serverVars == <<now, ticks, currentYear, cache, transport, reqs, users, currentUserId, sessions>>

homeVars == <<filters, page, hasMore, carsData, queries>>

clientVars == <<homeVars, searchHistory, wishlist, updates, calls>>

vars == <<serverVars, clientVars>>

----------------------------------------------------------------------------
(* Bounds of the model *)

MaxTicks == 3        \* clock advances in one behaviour
MaxCalls == 3        \* upstream calls in one behaviour
MaxSeed == 1         \* Math.random tapes 0..MaxSeed
MaxUsers == 2        \* registrations in one behaviour
MaxSessions == 2     \* logins in one behaviour
MaxDeletes == 3      \* DELETE /api/user requests on one session
MaxNewYears == 1     \* changes of calendar year in one behaviour
MaxHistoryCalls == 3 \* calls of the search-history hook in one behaviour
MaxWishlistCalls == 4 \* calls of the wishlist context in one behaviour
MaxPage == 1         \* highest page number the home page reaches
MaxFetches == 3      \* distinct search URLs the home page requests
FirstYear == 2025    \* calendar year when the process starts

Requests == {1, 2}   \* requests that can be in progress at once

----------------------------------------------------------------------------
(* JavaScript values *)

NaN == -1000000007
Null == <<"null">>
Undefined == <<"undefined">>

UpperChars == <<"A","B","C","D","E","F","G","H","I","J","K","L","M",
                "N","O","P","Q","R","S","T","U","V","W","X","Y","Z">>
LowerChars == <<"a","b","c","d","e","f","g","h","i","j","k","l","m",
                "n","o","p","q","r","s","t","u","v","w","x","y","z">>
DigitChars == <<"0","1","2","3","4","5","6","7","8","9">>

Has(obj, key) == key \in DOMAIN obj

Max(a, b) == IF a >= b THEN a ELSE b
Min(a, b) == IF a <= b THEN a ELSE b

\* String.prototype.toLowerCase
toLowerCase(s) ==
  [i \in 1..Len(s) |->
     IF \E k \in 1..26 : UpperChars[k] = s[i]
     THEN LowerChars[CHOOSE k \in 1..26 : UpperChars[k] = s[i]]
     ELSE s[i]]

\* String.prototype.includes
includes(s, t) ==
  \E i \in 0..(Len(s) - Len(t)) : SubSeq(s, i + 1, i + Len(t)) = t

\* String.prototype.trim
RECURSIVE trimStart(_)
trimStart(s) ==
  IF s # <<>> /\ Head(s) = " " THEN trimStart(Tail(s)) ELSE s

RECURSIVE trimEnd(_)
trimEnd(s) ==
  IF s # <<>> /\ s[Len(s)] = " " THEN trimEnd(SubSeq(s, 1, Len(s) - 1)) ELSE s

trim(s) == trimEnd(trimStart(s))

\* String.prototype.split with a one-character separator
RECURSIVE split(_, _)
split(s, sep) ==
  IF \E i \in 1..Len(s) : s[i] = sep
  THEN LET i == CHOOSE k \in 1..Len(s) :
                  s[k] = sep /\ \A j \in 1..(k - 1) : s[j] # sep
       IN <<SubSeq(s, 1, i - 1)>> \o split(SubSeq(s, i + 1, Len(s)), sep)
  ELSE <<s>>

\* Array.prototype.join
RECURSIVE join(_, _)
join(parts, sep) ==
  IF parts = <<>> THEN <<>>
  ELSE IF Len(parts) = 1 THEN parts[1]
  ELSE parts[1] \o <<sep>> \o join(Tail(parts), sep)

\* Number.prototype.toString for integers and NaN
RECURSIVE natToString(_)
natToString(n) ==
  IF n < 10 THEN <<DigitChars[n + 1]>>
  ELSE natToString(n \div 10) \o <<DigitChars[(n % 10) + 1]>>

toString(n) ==
  IF n = NaN THEN <<"N","a","N">>
  ELSE IF n < 0 THEN <<"-">> \o natToString(0 - n)
  ELSE natToString(n)

\* Number(string) for decimal integer literals; the empty or blank string is
\* 0 and any other text is NaN
IsDigit(c) == \E k \in 1..10 : DigitChars[k] = c
DigitValue(c) == (CHOOSE k \in 1..10 : DigitChars[k] = c) - 1

RECURSIVE digitsToNat(_)
digitsToNat(s) ==
  IF s = <<>> THEN 0
  ELSE digitsToNat(SubSeq(s, 1, Len(s) - 1)) * 10 + DigitValue(s[Len(s)])

Number(s) ==
  LET t == trim(s)
      signed == t # <<>> /\ Head(t) \in {"-", "+"}
      body == IF signed THEN Tail(t) ELSE t
  IN IF t = <<>> THEN 0
     ELSE IF body = <<>> \/ \E i \in 1..Len(body) : ~IsDigit(body[i]) THEN NaN
     ELSE IF signed /\ Head(t) = "-" THEN 0 - digitsToNat(body)
     ELSE digitsToNat(body)

\* parseInt(string): the value of the leading decimal digits after optional
\* white space and sign, NaN when there is none
parseInt(s) ==
  LET t == trimStart(s)
      signed == t # <<>> /\ Head(t) \in {"-", "+"}
      body == IF signed THEN Tail(t) ELSE t
      n == Cardinality({k \in 1..Len(body) : \A i \in 1..k : IsDigit(body[i])})
  IN IF n = 0 THEN NaN
     ELSE IF signed /\ Head(t) = "-" THEN 0 - digitsToNat(SubSeq(body, 1, n))
     ELSE digitsToNat(SubSeq(body, 1, n))

\* Relational operators on numbers: false as soon as an operand is NaN
Geq(a, b) == a # NaN /\ b # NaN /\ a >= b
Leq(a, b) == a # NaN /\ b # NaN /\ a <= b

\* Array.prototype.slice(start, end): NaN counts as 0 and a negative index
\* counts from the end of the array
slice(arr, start, end) ==
  LET len == Len(arr)
      rel(k) == IF k = NaN THEN 0
                ELSE IF k < 0 THEN Max(len + k, 0)
                ELSE Min(k, len)
  IN SubSeq(arr, rel(start) + 1, rel(end))

\* number + number, NaN when an operand is NaN
Plus(a, b) == IF a = NaN \/ b = NaN THEN NaN ELSE a + b

----------------------------------------------------------------------------
(* Static tables of car-api.ts *)

\* popularBrands (car-api.ts:300-303)
popularBrands ==
  << <<"T","o","y","o","t","a">>, <<"H","o","n","d","a">>, <<"F","o","r","d">>, <<"B","M","W">>, <<"M","e","r","c","e","d","e","s">>, <<"A","u","d","i">>, <<"T","e","s","l","a">>, <<"N","i","s","s","a","n">>, <<"S","u","z","u","k","i">>, <<"M","a","h","i","n","d","r","a">>, <<"T","a","t","a">>, <<"V","o","l","k","s","w","a","g","e","n">>, <<"M","a","r","u","t","i"," ","S","u","z","u","k","i">>, <<"J","e","e","p">>, <<"K","i","a">>, <<"H","y","u","n","d","a","i">> >>

\* fallbackModels: brand -> models, in source order (car-api.ts:309-357)
fallbackModels ==
  << << <<"T","o","y","o","t","a">>,
       << <<"C","a","m","r","y">>, <<"C","o","r","o","l","l","a">>, <<"R","A","V","4">>, <<"H","i","g","h","l","a","n","d","e","r">>, <<"S","u","p","r","a">>, <<"L","a","n","d"," ","C","r","u","i","s","e","r">>, <<"Y","a","r","i","s">>, <<"P","r","i","u","s">>, <<"A","v","a","l","o","n">>, <<"V","e","n","z","a">>, <<"S","i","e","n","n","a">> >> >>,
     << <<"H","o","n","d","a">>,
       << <<"C","i","v","i","c">>, <<"A","c","c","o","r","d">>, <<"C","R","-","V">>, <<"P","i","l","o","t">>, <<"F","i","t">>, <<"H","R","-","V">>, <<"O","d","y","s","s","e","y">>, <<"I","n","s","i","g","h","t">>, <<"R","i","d","g","e","l","i","n","e">>, <<"P","a","s","s","p","o","r","t">> >> >>,
     << <<"N","i","s","s","a","n">>,
       << <<"A","l","t","i","m","a">>, <<"M","a","x","i","m","a">>, <<"R","o","g","u","e">>, <<"P","a","t","h","f","i","n","d","e","r">>, <<"G","T","R">>, <<"3","7","0","Z">>, <<"L","e","a","f">>, <<"S","e","n","t","r","a">>, <<"M","u","r","a","n","o">>, <<"K","i","c","k","s">>, <<"F","r","o","n","t","i","e","r">>, <<"T","i","t","a","n">> >> >>,
     << <<"S","u","z","u","k","i">>,
       << <<"S","w","i","f","t">>, <<"V","i","t","a","r","a">>, <<"J","i","m","n","y">>, <<"S","-","C","r","o","s","s">>, <<"I","g","n","i","s">>, <<"B","a","l","e","n","o">>, <<"C","i","a","z">>, <<"E","r","t","i","g","a">>, <<"X","L","6">>, <<"D","z","i","r","e">>, <<"A","l","t","o">> >> >>,
     << <<"M","a","z","d","a">>,
       << <<"M","a","z","d","a","3">>, <<"M","a","z","d","a","6">>, <<"C","X","-","3">>, <<"C","X","-","3","0">>, <<"C","X","-","5">>, <<"C","X","-","9">>, <<"M","X","-","5"," ","M","i","a","t","a">>, <<"R","X","-","8">>, <<"R","X","-","7">> >> >>,
     << <<"M","i","t","s","u","b","i","s","h","i">>,
       << <<"O","u","t","l","a","n","d","e","r">>, <<"E","c","l","i","p","s","e"," ","C","r","o","s","s">>, <<"M","i","r","a","g","e">>, <<"P","a","j","e","r","o">>, <<"L","a","n","c","e","r">>, <<"E","v","o","l","u","t","i","o","n">>, <<"M","o","n","t","e","r","o">> >> >>,
     << <<"S","u","b","a","r","u">>,
       << <<"I","m","p","r","e","z","a">>, <<"L","e","g","a","c","y">>, <<"O","u","t","b","a","c","k">>, <<"F","o","r","e","s","t","e","r">>, <<"C","r","o","s","s","t","r","e","k">>, <<"W","R","X">>, <<"S","T","I">>, <<"B","R","Z">> >> >>,
     << <<"L","e","x","u","s">>,
       << <<"E","S">>, <<"I","S">>, <<"L","S">>, <<"R","X">>, <<"G","X">>, <<"L","X">>, <<"L","C">>, <<"R","C">>, <<"N","X">>, <<"U","X">>, <<"G","S">> >> >>,
     << <<"A","c","u","r","a">>,
       << <<"I","L","X">>, <<"T","L","X">>, <<"R","D","X">>, <<"M","D","X">>, <<"N","S","X">>, <<"R","S","X">>, <<"T","S","X">>, <<"R","L","X">> >> >>,
     << <<"I","n","f","i","n","i","t","i">>,
       << <<"Q","5","0">>, <<"Q","6","0">>, <<"Q","X","5","0">>, <<"Q","X","6","0">>, <<"Q","X","8","0">>, <<"G","3","5">>, <<"G","3","7">>, <<"F","X","3","5">> >> >>,
     << <<"F","o","r","d">>,
       << <<"F","-","1","5","0">>, <<"E","s","c","a","p","e">>, <<"E","x","p","l","o","r","e","r">>, <<"M","u","s","t","a","n","g">>, <<"F","o","c","u","s">>, <<"R","a","n","g","e","r">>, <<"B","r","o","n","c","o">>, <<"E","d","g","e">>, <<"E","x","p","e","d","i","t","i","o","n">>, <<"M","a","v","e","r","i","c","k">>, <<"E","c","o","S","p","o","r","t">>, <<"M","a","c","h","-","E">> >> >>,
     << <<"C","h","e","v","r","o","l","e","t">>,
       << <<"M","a","l","i","b","u">>, <<"I","m","p","a","l","a">>, <<"E","q","u","i","n","o","x">>, <<"T","a","h","o","e">>, <<"S","i","l","v","e","r","a","d","o">>, <<"C","o","r","v","e","t","t","e">>, <<"C","a","m","a","r","o">>, <<"S","u","b","u","r","b","a","n">>, <<"B","l","a","z","e","r">>, <<"T","r","a","v","e","r","s","e">>, <<"C","o","l","o","r","a","d","o">>, <<"B","o","l","t">> >> >>,
     << <<"T","e","s","l","a">>,
       << <<"M","o","d","e","l"," ","3">>, <<"M","o","d","e","l"," ","S">>, <<"M","o","d","e","l"," ","X">>, <<"M","o","d","e","l"," ","Y">>, <<"C","y","b","e","r","t","r","u","c","k">>, <<"R","o","a","d","s","t","e","r">>, <<"S","e","m","i">> >> >>,
     << <<"C","a","d","i","l","l","a","c">>,
       << <<"C","T","4">>, <<"C","T","5">>, <<"X","T","4">>, <<"X","T","5">>, <<"X","T","6">>, <<"E","s","c","a","l","a","d","e">>, <<"C","T","S">>, <<"A","T","S">>, <<"S","R","X">>, <<"L","y","r","i","q">> >> >>,
     << <<"J","e","e","p">>,
       << <<"W","r","a","n","g","l","e","r">>, <<"G","r","a","n","d"," ","C","h","e","r","o","k","e","e">>, <<"C","h","e","r","o","k","e","e">>, <<"C","o","m","p","a","s","s">>, <<"R","e","n","e","g","a","d","e">>, <<"G","l","a","d","i","a","t","o","r">>, <<"W","a","g","o","n","e","e","r">>, <<"C","o","m","m","a","n","d","e","r">> >> >>,
     << <<"D","o","d","g","e">>,
       << <<"C","h","a","r","g","e","r">>, <<"C","h","a","l","l","e","n","g","e","r">>, <<"D","u","r","a","n","g","o">>, <<"J","o","u","r","n","e","y">>, <<"V","i","p","e","r">>, <<"R","A","M"," ","1","5","0","0">>, <<"R","A","M"," ","2","5","0","0">> >> >>,
     << <<"C","h","r","y","s","l","e","r">>,
       << <<"3","0","0">>, <<"P","a","c","i","f","i","c","a">>, <<"V","o","y","a","g","e","r">>, <<"T","o","w","n"," ","&"," ","C","o","u","n","t","r","y">>, <<"P","T"," ","C","r","u","i","s","e","r">>, <<"S","e","b","r","i","n","g">> >> >>,
     << <<"G","M","C">>,
       << <<"S","i","e","r","r","a">>, <<"Y","u","k","o","n">>, <<"T","e","r","r","a","i","n">>, <<"A","c","a","d","i","a">>, <<"C","a","n","y","o","n">>, <<"H","u","m","m","e","r"," ","E","V">>, <<"S","a","v","a","n","a">> >> >>,
     << <<"B","u","i","c","k">>,
       << <<"E","n","c","l","a","v","e">>, <<"E","n","c","o","r","e">>, <<"E","n","v","i","s","i","o","n">>, <<"R","e","g","a","l">>, <<"L","a","C","r","o","s","s","e">>, <<"V","e","r","a","n","o">> >> >>,
     << <<"L","i","n","c","o","l","n">>,
       << <<"N","a","v","i","g","a","t","o","r">>, <<"A","v","i","a","t","o","r">>, <<"C","o","r","s","a","i","r">>, <<"N","a","u","t","i","l","u","s">>, <<"M","K","Z">>, <<"C","o","n","t","i","n","e","n","t","a","l">>, <<"T","o","w","n"," ","C","a","r">> >> >>,
     << <<"B","M","W">>,
       << <<"3"," ","S","e","r","i","e","s">>, <<"5"," ","S","e","r","i","e","s">>, <<"X","3">>, <<"X","5">>, <<"M","3">>, <<"M","5">>, <<"i","8">>, <<"7"," ","S","e","r","i","e","s">>, <<"X","1">>, <<"X","7">>, <<"Z","4">>, <<"i","4">>, <<"i","X">> >> >>,
     << <<"M","e","r","c","e","d","e","s">>,
       << <<"C","-","C","l","a","s","s">>, <<"E","-","C","l","a","s","s">>, <<"G","L","C">>, <<"S","-","C","l","a","s","s">>, <<"A","M","G"," ","G","T">>, <<"G","-","W","a","g","o","n">>, <<"E","Q","S">>, <<"G","L","A">>, <<"G","L","E">>, <<"C","L","A">>, <<"A","-","C","l","a","s","s">>, <<"S","L">> >> >>,
     << <<"A","u","d","i">>,
       << <<"A","4">>, <<"A","6">>, <<"Q","5">>, <<"Q","7">>, <<"R","8">>, <<"e","-","t","r","o","n">>, <<"T","T">>, <<"A","3">>, <<"A","8">>, <<"Q","3">>, <<"Q","8">>, <<"R","S","6">>, <<"S","4">> >> >>,
     << <<"V","o","l","k","s","w","a","g","e","n">>,
       << <<"G","o","l","f">>, <<"P","a","s","s","a","t">>, <<"T","i","g","u","a","n">>, <<"A","t","l","a","s">>, <<"J","e","t","t","a">>, <<"A","r","t","e","o","n">>, <<"I","D",".","4">>, <<"T","a","o","s">>, <<"P","o","l","o">>, <<"T","o","u","a","r","e","g">>, <<"B","e","e","t","l","e">> >> >>,
     << <<"P","o","r","s","c","h","e">>,
       << <<"9","1","1">>, <<"C","a","y","e","n","n","e">>, <<"M","a","c","a","n">>, <<"P","a","n","a","m","e","r","a">>, <<"T","a","y","c","a","n">>, <<"B","o","x","s","t","e","r">>, <<"C","a","y","m","a","n">>, <<"7","1","8">> >> >>,
     << <<"J","a","g","u","a","r">>,
       << <<"F","-","P","a","c","e">>, <<"X","F">>, <<"X","E">>, <<"I","-","P","a","c","e">>, <<"F","-","T","y","p","e">>, <<"X","J">>, <<"E","-","P","a","c","e">> >> >>,
     << <<"L","a","n","d"," ","R","o","v","e","r">>,
       << <<"R","a","n","g","e"," ","R","o","v","e","r">>, <<"D","i","s","c","o","v","e","r","y">>, <<"D","e","f","e","n","d","e","r">>, <<"E","v","o","q","u","e">>, <<"V","e","l","a","r">>, <<"S","p","o","r","t">>, <<"L","R","4">> >> >>,
     << <<"V","o","l","v","o">>,
       << <<"X","C","9","0">>, <<"X","C","6","0">>, <<"X","C","4","0">>, <<"S","6","0">>, <<"S","9","0">>, <<"V","6","0">>, <<"V","9","0">>, <<"C","4","0">> >> >>,
     << <<"F","e","r","r","a","r","i">>,
       << <<"R","o","m","a">>, <<"P","o","r","t","o","f","i","n","o">>, <<"S","F","9","0">>, <<"F","8">>, <<"8","1","2">>, <<"2","9","6">>, <<"L","a","F","e","r","r","a","r","i">> >> >>,
     << <<"L","a","m","b","o","r","g","h","i","n","i">>,
       << <<"A","v","e","n","t","a","d","o","r">>, <<"H","u","r","a","c","a","n">>, <<"U","r","u","s">>, <<"R","e","v","u","e","l","t","o">>, <<"G","a","l","l","a","r","d","o">>, <<"M","u","r","c","i","e","l","a","g","o">>, <<"C","o","u","n","t","a","c","h">> >> >>,
     << <<"H","y","u","n","d","a","i">>,
       << <<"E","l","a","n","t","r","a">>, <<"S","o","n","a","t","a">>, <<"T","u","c","s","o","n">>, <<"S","a","n","t","a"," ","F","e">>, <<"P","a","l","i","s","a","d","e">>, <<"K","o","n","a">>, <<"I","o","n","i","q">>, <<"V","e","n","u","e">>, <<"A","c","c","e","n","t">>, <<"V","e","l","o","s","t","e","r">>, <<"N","e","x","o">>, <<"I","o","n","i","q"," ","5">> >> >>,
     << <<"K","i","a">>,
       << <<"F","o","r","t","e">>, <<"O","p","t","i","m","a">>, <<"S","p","o","r","t","a","g","e">>, <<"S","o","r","e","n","t","o">>, <<"T","e","l","l","u","r","i","d","e">>, <<"S","o","u","l">>, <<"S","t","i","n","g","e","r">>, <<"N","i","r","o">>, <<"S","e","l","t","o","s">>, <<"K","5">>, <<"E","V","6">>, <<"R","i","o">> >> >>,
     << <<"G","e","n","e","s","i","s">>,
       << <<"G","7","0">>, <<"G","8","0">>, <<"G","9","0">>, <<"G","V","7","0">>, <<"G","V","8","0">>, <<"G","V","6","0">>, <<"E","l","e","c","t","r","i","f","i","e","d"," ","G","8","0">> >> >>,
     << <<"M","a","h","i","n","d","r","a">>,
       << <<"X","U","V","7","0","0">>, <<"T","h","a","r">>, <<"S","c","o","r","p","i","o">>, <<"X","U","V","3","0","0">>, <<"B","o","l","e","r","o">>, <<"M","a","r","a","z","z","o">>, <<"K","U","V","1","0","0">>, <<"X","U","V","5","0","0">>, <<"T","U","V","3","0","0">>, <<"A","l","t","u","r","a","s"," ","G","4">> >> >>,
     << <<"T","a","t","a">>,
       << <<"N","e","x","o","n">>, <<"H","a","r","r","i","e","r">>, <<"S","a","f","a","r","i">>, <<"P","u","n","c","h">>, <<"T","i","a","g","o">>, <<"A","l","t","r","o","z">>, <<"T","i","g","o","r">>, <<"H","e","x","a">>, <<"N","a","n","o">>, <<"S","i","e","r","r","a"," ","E","V">> >> >>,
     << <<"M","a","r","u","t","i"," ","S","u","z","u","k","i">>,
       << <<"S","w","i","f","t">>, <<"B","a","l","e","n","o">>, <<"B","r","e","z","z","a">>, <<"D","z","i","r","e">>, <<"W","a","g","o","n","R">>, <<"A","l","t","o">>, <<"E","r","t","i","g","a">>, <<"C","i","a","z">>, <<"S","-","P","r","e","s","s","o">>, <<"C","e","l","e","r","i","o">>, <<"J","i","m","n","y">> >> >>,
     << <<"F","o","r","c","e"," ","M","o","t","o","r","s">>,
       << <<"G","u","r","k","h","a">>, <<"T","r","a","x">>, <<"T","r","a","v","e","l","l","e","r">>, <<"C","r","u","i","s","e","r">> >> >>,
     << <<"H","i","n","d","u","s","t","a","n"," ","M","o","t","o","r","s">>,
       << <<"A","m","b","a","s","s","a","d","o","r">>, <<"C","o","n","t","e","s","s","a">> >> >> >>

\* specificModels: query token -> "Brand Model" (car-api.ts:407-495)
specificModels ==
  << << <<"g","t","r">>, <<"N","i","s","s","a","n"," ","G","T","R">> >>,
     << <<"s","k","y","l","i","n","e">>, <<"N","i","s","s","a","n"," ","G","T","R">> >>,
     << <<"s","w","i","f","t">>, <<"S","u","z","u","k","i"," ","S","w","i","f","t">> >>,
     << <<"c","i","v","i","c">>, <<"H","o","n","d","a"," ","C","i","v","i","c">> >>,
     << <<"a","c","c","o","r","d">>, <<"H","o","n","d","a"," ","A","c","c","o","r","d">> >>,
     << <<"c","o","r","o","l","l","a">>, <<"T","o","y","o","t","a"," ","C","o","r","o","l","l","a">> >>,
     << <<"c","a","m","r","y">>, <<"T","o","y","o","t","a"," ","C","a","m","r","y">> >>,
     << <<"s","u","p","r","a">>, <<"T","o","y","o","t","a"," ","S","u","p","r","a">> >>,
     << <<"r","x","7">>, <<"M","a","z","d","a"," ","R","X","-","7">> >>,
     << <<"m","i","a","t","a">>, <<"M","a","z","d","a"," ","M","X","-","5"," ","M","i","a","t","a">> >>,
     << <<"l","a","n","c","e","r">>, <<"M","i","t","s","u","b","i","s","h","i"," ","L","a","n","c","e","r">> >>,
     << <<"e","v","o">>, <<"M","i","t","s","u","b","i","s","h","i"," ","E","v","o","l","u","t","i","o","n">> >>,
     << <<"m","u","s","t","a","n","g">>, <<"F","o","r","d"," ","M","u","s","t","a","n","g">> >>,
     << <<"f","1","5","0">>, <<"F","o","r","d"," ","F","-","1","5","0">> >>,
     << <<"b","r","o","n","c","o">>, <<"F","o","r","d"," ","B","r","o","n","c","o">> >>,
     << <<"c","a","m","a","r","o">>, <<"C","h","e","v","r","o","l","e","t"," ","C","a","m","a","r","o">> >>,
     << <<"c","o","r","v","e","t","t","e">>, <<"C","h","e","v","r","o","l","e","t"," ","C","o","r","v","e","t","t","e">> >>,
     << <<"s","i","l","v","e","r","a","d","o">>, <<"C","h","e","v","r","o","l","e","t"," ","S","i","l","v","e","r","a","d","o">> >>,
     << <<"t","e","s","l","a">>, <<"T","e","s","l","a"," ","M","o","d","e","l"," ","3">> >>,
     << <<"m","o","d","e","l","3">>, <<"T","e","s","l","a"," ","M","o","d","e","l"," ","3">> >>,
     << <<"m","o","d","e","l","s">>, <<"T","e","s","l","a"," ","M","o","d","e","l"," ","S">> >>,
     << <<"m","o","d","e","l","x">>, <<"T","e","s","l","a"," ","M","o","d","e","l"," ","X">> >>,
     << <<"m","o","d","e","l","y">>, <<"T","e","s","l","a"," ","M","o","d","e","l"," ","Y">> >>,
     << <<"w","r","a","n","g","l","e","r">>, <<"J","e","e","p"," ","W","r","a","n","g","l","e","r">> >>,
     << <<"c","h","e","r","o","k","e","e">>, <<"J","e","e","p"," ","C","h","e","r","o","k","e","e">> >>,
     << <<"e","s","c","a","l","a","d","e">>, <<"C","a","d","i","l","l","a","c"," ","E","s","c","a","l","a","d","e">> >>,
     << <<"c","h","a","l","l","e","n","g","e","r">>, <<"D","o","d","g","e"," ","C","h","a","l","l","e","n","g","e","r">> >>,
     << <<"c","h","a","r","g","e","r">>, <<"D","o","d","g","e"," ","C","h","a","r","g","e","r">> >>,
     << <<"r","a","m">>, <<"D","o","d","g","e"," ","R","A","M"," ","1","5","0","0">> >>,
     << <<"b","m","w">>, <<"B","M","W"," ","3"," ","S","e","r","i","e","s">> >>,
     << <<"9","1","1">>, <<"P","o","r","s","c","h","e"," ","9","1","1">> >>,
     << <<"c","a","y","e","n","n","e">>, <<"P","o","r","s","c","h","e"," ","C","a","y","e","n","n","e">> >>,
     << <<"b","e","n","z">>, <<"M","e","r","c","e","d","e","s"," ","C","-","C","l","a","s","s">> >>,
     << <<"c","c","l","a","s","s">>, <<"M","e","r","c","e","d","e","s"," ","C","-","C","l","a","s","s">> >>,
     << <<"e","c","l","a","s","s">>, <<"M","e","r","c","e","d","e","s"," ","E","-","C","l","a","s","s">> >>,
     << <<"s","c","l","a","s","s">>, <<"M","e","r","c","e","d","e","s"," ","S","-","C","l","a","s","s">> >>,
     << <<"g","w","a","g","o","n">>, <<"M","e","r","c","e","d","e","s"," ","G","-","W","a","g","o","n">> >>,
     << <<"a","4">>, <<"A","u","d","i"," ","A","4">> >>,
     << <<"r","8">>, <<"A","u","d","i"," ","R","8">> >>,
     << <<"t","t">>, <<"A","u","d","i"," ","T","T">> >>,
     << <<"g","o","l","f">>, <<"V","o","l","k","s","w","a","g","e","n"," ","G","o","l","f">> >>,
     << <<"j","e","t","t","a">>, <<"V","o","l","k","s","w","a","g","e","n"," ","J","e","t","t","a">> >>,
     << <<"b","e","e","t","l","e">>, <<"V","o","l","k","s","w","a","g","e","n"," ","B","e","e","t","l","e">> >>,
     << <<"f","e","r","r","a","r","i">>, <<"F","e","r","r","a","r","i"," ","R","o","m","a">> >>,
     << <<"l","a","m","b","o">>, <<"L","a","m","b","o","r","g","h","i","n","i"," ","A","v","e","n","t","a","d","o","r">> >>,
     << <<"r","a","n","g","e"," ","r","o","v","e","r">>, <<"L","a","n","d"," ","R","o","v","e","r"," ","R","a","n","g","e"," ","R","o","v","e","r">> >>,
     << <<"d","i","s","c","o","v","e","r","y">>, <<"L","a","n","d"," ","R","o","v","e","r"," ","D","i","s","c","o","v","e","r","y">> >>,
     << <<"d","e","f","e","n","d","e","r">>, <<"L","a","n","d"," ","R","o","v","e","r"," ","D","e","f","e","n","d","e","r">> >>,
     << <<"s","o","n","a","t","a">>, <<"H","y","u","n","d","a","i"," ","S","o","n","a","t","a">> >>,
     << <<"e","l","a","n","t","r","a">>, <<"H","y","u","n","d","a","i"," ","E","l","a","n","t","r","a">> >>,
     << <<"t","u","c","s","o","n">>, <<"H","y","u","n","d","a","i"," ","T","u","c","s","o","n">> >>,
     << <<"s","a","n","t","a","f","e">>, <<"H","y","u","n","d","a","i"," ","S","a","n","t","a"," ","F","e">> >>,
     << <<"t","e","l","l","u","r","i","d","e">>, <<"K","i","a"," ","T","e","l","l","u","r","i","d","e">> >>,
     << <<"k","5">>, <<"K","i","a"," ","K","5">> >>,
     << <<"s","o","u","l">>, <<"K","i","a"," ","S","o","u","l">> >>,
     << <<"s","p","o","r","t","a","g","e">>, <<"K","i","a"," ","S","p","o","r","t","a","g","e">> >>,
     << <<"g","7","0">>, <<"G","e","n","e","s","i","s"," ","G","7","0">> >>,
     << <<"g","8","0">>, <<"G","e","n","e","s","i","s"," ","G","8","0">> >>,
     << <<"a","l","t","o">>, <<"M","a","r","u","t","i"," ","S","u","z","u","k","i"," ","A","l","t","o">> >>,
     << <<"w","a","g","o","n","r">>, <<"M","a","r","u","t","i"," ","S","u","z","u","k","i"," ","W","a","g","o","n","R">> >>,
     << <<"b","r","e","z","z","a">>, <<"M","a","r","u","t","i"," ","S","u","z","u","k","i"," ","B","r","e","z","z","a">> >>,
     << <<"d","z","i","r","e">>, <<"M","a","r","u","t","i"," ","S","u","z","u","k","i"," ","D","z","i","r","e">> >>,
     << <<"b","a","l","e","n","o">>, <<"S","u","z","u","k","i"," ","B","a","l","e","n","o">> >>,
     << <<"t","h","a","r">>, <<"M","a","h","i","n","d","r","a"," ","T","h","a","r">> >>,
     << <<"s","c","o","r","p","i","o">>, <<"M","a","h","i","n","d","r","a"," ","S","c","o","r","p","i","o">> >>,
     << <<"x","u","v","7","0","0">>, <<"M","a","h","i","n","d","r","a"," ","X","U","V","7","0","0">> >>,
     << <<"x","u","v","5","0","0">>, <<"M","a","h","i","n","d","r","a"," ","X","U","V","5","0","0">> >>,
     << <<"x","u","v","3","0","0">>, <<"M","a","h","i","n","d","r","a"," ","X","U","V","3","0","0">> >>,
     << <<"b","o","l","e","r","o">>, <<"M","a","h","i","n","d","r","a"," ","B","o","l","e","r","o">> >>,
     << <<"n","e","x","o","n">>, <<"T","a","t","a"," ","N","e","x","o","n">> >>,
     << <<"h","a","r","r","i","e","r">>, <<"T","a","t","a"," ","H","a","r","r","i","e","r">> >>,
     << <<"s","a","f","a","r","i">>, <<"T","a","t","a"," ","S","a","f","a","r","i">> >>,
     << <<"t","i","a","g","o">>, <<"T","a","t","a"," ","T","i","a","g","o">> >>,
     << <<"n","a","n","o">>, <<"T","a","t","a"," ","N","a","n","o">> >>,
     << <<"a","l","t","r","o","z">>, <<"T","a","t","a"," ","A","l","t","r","o","z">> >>,
     << <<"a","m","b","a","s","s","a","d","o","r">>, <<"H","i","n","d","u","s","t","a","n"," ","M","o","t","o","r","s"," ","A","m","b","a","s","s","a","d","o","r">> >>,
     << <<"c","o","n","t","e","s","s","a">>, <<"H","i","n","d","u","s","t","a","n"," ","M","o","t","o","r","s"," ","C","o","n","t","e","s","s","a">> >>,
     << <<"g","u","r","k","h","a">>, <<"F","o","r","c","e"," ","M","o","t","o","r","s"," ","G","u","r","k","h","a">> >> >>

\* Brands that getCarBrands answers when the upstream call fails
\* (car-api.ts:75-86)
fallbackBrands ==
  << <<"T","o","y","o","t","a">>, <<"H","o","n","d","a">>, <<"N","i","s","s","a","n">>, <<"S","u","z","u","k","i">>, <<"L","e","x","u","s">>,
     <<"A","c","u","r","a">>, <<"M","a","z","d","a">>, <<"M","i","t","s","u","b","i","s","h","i">>, <<"S","u","b","a","r","u">>, <<"I","n","f","i","n","i","t","i">>,
     <<"F","o","r","d">>, <<"C","h","e","v","r","o","l","e","t">>, <<"C","a","d","i","l","l","a","c">>, <<"J","e","e","p">>, <<"D","o","d","g","e">>,
     <<"C","h","r","y","s","l","e","r">>, <<"G","M","C">>, <<"B","u","i","c","k">>, <<"L","i","n","c","o","l","n">>, <<"T","e","s","l","a">>,
     <<"B","M","W">>, <<"M","e","r","c","e","d","e","s">>, <<"A","u","d","i">>, <<"V","o","l","k","s","w","a","g","e","n">>, <<"P","o","r","s","c","h","e">>,
     <<"J","a","g","u","a","r">>, <<"L","a","n","d"," ","R","o","v","e","r">>, <<"V","o","l","v","o">>, <<"F","e","r","r","a","r","i">>, <<"L","a","m","b","o","r","g","h","i","n","i">>,
     <<"H","y","u","n","d","a","i">>, <<"K","i","a">>, <<"G","e","n","e","s","i","s">>, <<"M","a","h","i","n","d","r","a">>, <<"T","a","t","a">>,
     <<"M","a","r","u","t","i"," ","S","u","z","u","k","i">>, <<"F","o","r","c","e"," ","M","o","t","o","r","s">>, <<"H","i","n","d","u","s","t","a","n"," ","M","o","t","o","r","s">> >>

\* Body types that getCarTypes answers when the upstream call fails
\* (car-api.ts:126)
fallbackTypes ==
  << <<"S","e","d","a","n">>, <<"S","U","V">>, <<"H","a","t","c","h","b","a","c","k">>, <<"C","o","n","v","e","r","t","i","b","l","e">>, <<"C","o","u","p","e">>, <<"P","i","c","k","u","p">> >>

\* The records the upstream catalog holds, in the order it lists them
UpstreamCatalog ==
  << [id |-> 1, make |-> <<"T","o","y","o","t","a">>, model |-> <<"C","a","m","r","y">>,
      year |-> 2024, type |-> <<"S","e","d","a","n">>],
     [id |-> 2, make |-> <<"T","o","y","o","t","a">>, model |-> <<"R","A","V","4">>,
      year |-> 2023, type |-> <<"S","U","V">>],
     [id |-> 3, make |-> <<"F","o","r","d">>, model |-> <<"M","u","s","t","a","n","g">>,
      year |-> 2022, type |-> <<"C","o","u","p","e">>],
     [id |-> 4, make |-> <<"N","i","s","s","a","n">>, model |-> <<"G","T","R">>,
      year |-> 2024, type |-> Undefined],
     [id |-> 5, make |-> <<"H","o","n","d","a">>, model |-> <<"C","i","v","i","c">>,
      year |-> 2021, type |-> <<"S","e","d","a","n">>],
     [id |-> 6, make |-> <<"F","o","r","d">>, model |-> <<"F","-","1","5","0">>,
      year |-> 2023, type |-> <<"P","i","c","k","u","p">>],
     [id |-> 7, make |-> <<"T","o","y","o","t","a">>, model |-> <<"C","o","r","o","l","l","a">>,
      year |-> 2020, type |-> <<"S","e","d","a","n">>],
     [id |-> 8, make |-> <<"T","o","y","o","t","a">>, model |-> <<"S","u","p","r","a">>,
      year |-> 2024, type |-> <<"C","o","u","p","e">>],
     [id |-> 9, make |-> <<"M","e","r","c","e","d","e","s">>, model |-> <<"C","-","C","l","a","s","s">>,
      year |-> 2022, type |-> <<"S","e","d","a","n">>],
     [id |-> 10, make |-> <<"T","o","y","o","t","a">>, model |-> <<"H","i","g","h","l","a","n","d","e","r">>,
      year |-> 2022, type |-> <<"S","U","V">>],
     [id |-> 11, make |-> <<"T","o","y","o","t","a">>, model |-> <<"P","r","i","u","s">>,
      year |-> 2019, type |-> <<"H","a","t","c","h","b","a","c","k">>],
     [id |-> 12, make |-> <<"T","o","y","o","t","a">>, model |-> <<"Y","a","r","i","s">>,
      year |-> 2018, type |-> <<"H","a","t","c","h","b","a","c","k">>],
     [id |-> 13, make |-> <<"F","o","r","d">>, model |-> <<"B","r","o","n","c","o">>,
      year |-> 1985, type |-> <<"S","U","V">>] >>

\* String literals used as request inputs
qMustang == <<"m","u","s","t","a","n","g">>
qMustangPadded == <<" ","M","u","s","t","a","n","g"," ">>
qSkyline == <<"s","k","y","l","i","n","e">>
qModel3 == <<"m","o","d","e","l","3">>
qRangeRover == <<"r","a","n","g","e"," ","r","o","v","e","r">>
qSuv == <<"s","u","v">>
qToyotaCamry == <<"t","o","y","o","t","a"," ","c","a","m","r","y">>
qBlank == <<" "," ">>
bToyota == <<"T","o","y","o","t","a">>
bToyotaHonda == <<"T","o","y","o","t","a",",","H","o","n","d","a">>
bNissan == <<"N","i","s","s","a","n">>
bFordNissan == <<"F","o","r","d",",","N","i","s","s","a","n">>
bUnknown == <<"Y","u","g","o">>
tSUV == <<"S","U","V">>
tSUVSedan == <<"S","U","V",",","S","e","d","a","n">>
fPetrol == <<"P","e","t","r","o","l">>
fPetrolDiesel == <<"P","e","t","r","o","l",",","D","i","e","s","e","l">>
n0 == <<"0">>
n5 == <<"5">>
n7 == <<"7">>
n10 == <<"1","0">>
n20 == <<"2","0">>
n50 == <<"5","0">>
n51 == <<"5","1">>
n100 == <<"1","0","0">>
nMinus1 == <<"-","1">>
nMinus5 == <<"-","5">>
nAbc == <<"a","b","c">>
n30000 == <<"3","0","0","0","0">>
n34000 == <<"3","4","0","0","0">>
n36000 == <<"3","6","0","0","0">>
n38000 == <<"3","8","0","0","0">>
sPrice == <<"p","r","i","c","e">>
sYear == <<"y","e","a","r">>
sAsc == <<"a","s","c">>
sDesc == <<"d","e","s","c">>

----------------------------------------------------------------------------
(* Math.random *)

\* A tape of Math.random is fixed by its number; random(tape, k) is the
\* numerator, over RandomScale, of the (k+1)-th value the tape yields.
RandomScale == 8192

random(tape, k) == ((tape * 977 + k) * 5003) % RandomScale

\* Math.floor(Math.random() * n)
floorRandom(tape, k, n) == (random(tape, k) * n) \div RandomScale

----------------------------------------------------------------------------
(* Response cache *)

CACHE_EXPIRY == 15 * 60 * 1000

\* isCacheValid, evaluated at time `t` on cache contents `c`
\* isCacheValid with an entry still served when it is exactly CACHE_EXPIRY old
isCacheValidInclusive(c, key, t) ==
  IF ~Has(c, key) THEN FALSE
  ELSE t - c[key].timestamp <= CACHE_EXPIRY

isCacheValid(c, key, t) ==
  IF ~Has(c, key) THEN FALSE
  ELSE t - c[key].timestamp < CACHE_EXPIRY

\* The store keeping the timestamp of the entry it replaces
cachePutKeepsTimestamp(c, key, t, data) ==
  [k \in DOMAIN c \cup {key} |->
     IF k = key
     THEN [timestamp |-> IF Has(c, key) THEN c[key].timestamp ELSE t, data |-> data]
     ELSE c[k]]

\* cache[cacheKey] = { timestamp: Date.now(), data }
cachePut(c, key, t, data) ==
  [k \in DOMAIN c \cup {key} |->
     IF k = key THEN [timestamp |-> t, data |-> data] ELSE c[k]]

\* The request URL of fetchFromAPI: the endpoint and the URLSearchParams
\* built from `pairs` (name/value pairs in insertion order)
apiUrl(endpoint, pairs) == <<endpoint, pairs>>

----------------------------------------------------------------------------
(* Record mapper *)

fuelTypeNames == << <<"P","e","t","r","o","l">>, <<"D","i","e","s","e","l">>,
                    <<"E","l","e","c","t","r","i","c">>, <<"H","y","b","r","i","d">> >>
transmissionNames == << <<"A","u","t","o","m","a","t","i","c">>, <<"M","a","n","u","a","l">> >>

\* apiCar.type?.toLowerCase().includes(word)
typeIncludes(apiCar, word) ==
  /\ apiCar.type # Undefined
  /\ apiCar.type # Null
  /\ includes(toLowerCase(apiCar.type), word)

\* mapApiCarToCar(apiCar, index); `tape` and `k` say which Math.random values
\* the call consumes (four of them, in the order price, fuel type,
\* transmission, mileage).  The description and image URL of the record are
\* not modelled.
mapApiCarToCar(apiCar, index, tape, k) ==
  LET basePrice == 10000
      yearFactor == (apiCar.year - 2000) * 1000
      randomFactor == floorRandom(tape, k, 5000)
      seatingCapacity ==
        IF typeIncludes(apiCar, <<"s","u","v">>) THEN 7
        ELSE IF \/ typeIncludes(apiCar, <<"c","o","u","p","e">>)
                \/ typeIncludes(apiCar, <<"c","o","n","v","e","r","t","i","b","l","e">>)
             THEN 2
        ELSE 5
  IN [ id |-> index + 1,
       brand |-> apiCar.make,
       model |-> apiCar.model,
       year |-> apiCar.year,
       price |-> basePrice + yearFactor + randomFactor,
       fuelType |-> fuelTypeNames[floorRandom(tape, k + 1, 4) + 1],
       transmission |-> transmissionNames[floorRandom(tape, k + 2, 2) + 1],
       seatingCapacity |-> seatingCapacity,
       mileage |-> floorRandom(tape, k + 3, 100000),
       bodyType |-> IF apiCar.type \in {Undefined, Null, <<>>}
                    THEN Null ELSE apiCar.type ]

\* The mapping with every record given the index of the first
mapApiCarsSharedIndex(apiCars, tape) ==
  [i \in 1..Len(apiCars) |-> mapApiCarToCar(apiCars[i], 0, tape, 4 * (i - 1))]

\* apiCars.map((apiCar, index) => mapApiCarToCar(apiCar, index))
mapApiCars(apiCars, tape) ==
  [i \in 1..Len(apiCars) |-> mapApiCarToCar(apiCars[i], i - 1, tape, 4 * (i - 1))]

----------------------------------------------------------------------------
(* Fallback generator *)

\* Concatenation of a sequence of sequences (the order of the push calls)
RECURSIVE flatten(_)
flatten(seqs) ==
  IF seqs = <<>> THEN <<>>
  ELSE IF Len(seqs) = 1 THEN seqs[1]
  ELSE LET half == Len(seqs) \div 2
       IN flatten(SubSeq(seqs, 1, half)) \o flatten(SubSeq(seqs, half + 1, Len(seqs)))

\* fallbackModels[brand] || []
modelsOf(brand) ==
  IF \E i \in 1..Len(fallbackModels) : fallbackModels[i][1] = brand
  THEN fallbackModels[CHOOSE i \in 1..Len(fallbackModels) :
                        fallbackModels[i][1] = brand][2]
  ELSE <<>>

\* brands && brands.length > 0 ? brands : popularBrands
brandsToFetch(params) ==
  IF Has(params, "brands") /\ Len(params.brands) > 0
  THEN params.brands ELSE popularBrands

\* The fallback loop over the current and the previous year only
fallbackApiCarsTwoYears(params, year) ==
  LET years == <<year, year - 1>>
      typeOf(idx) ==
        IF Has(params, "bodyTypes") /\ Len(params.bodyTypes) > 0
        THEN params.bodyTypes[1]
        ELSE IF idx % 2 = 0 THEN <<"S","e","d","a","n">> ELSE <<"S","U","V">>
      ofModel(brand, model) ==
        [i \in 1..2 |-> [make |-> brand, model |-> model,
                         year |-> years[i], type |-> typeOf(i - 1)]]
      ofBrand(brand) ==
        LET models == modelsOf(brand)
        IN flatten([m \in 1..Len(models) |-> ofModel(brand, models[m])])
      toFetch == brandsToFetch(params)
  IN flatten([b \in 1..Len(toFetch) |-> ofBrand(toFetch[b])])

\* The raw records the fallback loop hands to the mapper, in push order
fallbackApiCars(params, year) ==
  LET years == <<year, year - 1, year - 2>>
      typeOf(idx) ==
        IF Has(params, "bodyTypes") /\ Len(params.bodyTypes) > 0
        THEN params.bodyTypes[1]
        ELSE IF idx % 2 = 0 THEN <<"S","e","d","a","n">> ELSE <<"S","U","V">>
      ofModel(brand, model) ==
        [i \in 1..3 |-> [make |-> brand, model |-> model,
                         year |-> years[i], type |-> typeOf(i - 1)]]
      ofBrand(brand) ==
        LET models == modelsOf(brand)
        IN flatten([m \in 1..Len(models) |-> ofModel(brand, models[m])])
      toFetch == brandsToFetch(params)
  IN flatten([b \in 1..Len(toFetch) |-> ofBrand(toFetch[b])])

\* The fallback batch with the model years drawn from Math.random as well
fallbackCarsRandomYears(params, year, tape) ==
  LET apiCars == fallbackApiCars(params, year)
  IN mapApiCars([i \in 1..Len(apiCars) |->
                   [apiCars[i] EXCEPT !.year = year - floorRandom(tape, i, 3)]],
                tape)

\* The `cars` array after the catch block of searchCars: every raw record
\* mapped with index cars.length
fallbackCars(params, year, tape) ==
  mapApiCars(fallbackApiCars(params, year), tape)

----------------------------------------------------------------------------
(* Filter / sort / paginate pipeline of searchCars *)

\* if (query): a non-empty string
hasQuery(params) == Has(params, "query") /\ params.query # <<>>

searchTermOf(params) == trim(toLowerCase(params.query))

\* The predicate of the primary text pass
matchesText(car, searchTerm) ==
  LET brand == toLowerCase(car.brand)
      model == toLowerCase(car.model)
      bodyType == IF car.bodyType = Null THEN <<>> ELSE toLowerCase(car.bodyType)
      fuelType == toLowerCase(car.fuelType)
      yearStr == toString(car.year)
  IN \/ includes(brand, searchTerm)
     \/ includes(model, searchTerm)
     \/ includes(bodyType, searchTerm)
     \/ includes(fuelType, searchTerm)
     \/ includes(yearStr, searchTerm)
     \/ includes(brand \o <<" ">> \o model, searchTerm)

primaryPass(cars, searchTerm) ==
  SelectSeq(cars, LAMBDA car : matchesText(car, searchTerm))

\* specificModels[searchTerm] is truthy
hasSpecificModel(searchTerm) ==
  \E i \in 1..Len(specificModels) : specificModels[i][1] = searchTerm

specificModelOf(searchTerm) ==
  specificModels[CHOOSE i \in 1..Len(specificModels) :
                   specificModels[i][1] = searchTerm][2]

\* The secondary pass matching on the brand alone
secondaryPassBrandOnly(cars, searchTerm) ==
  LET words == split(specificModelOf(searchTerm), " ")
      specificBrand == words[1]
  IN SelectSeq(cars, LAMBDA car :
       toLowerCase(car.brand) = toLowerCase(specificBrand))

\* const [specificBrand, specificModel] = specificModels[searchTerm].split(' ')
\* followed by the filter over all `cars`
secondaryPass(cars, searchTerm) ==
  LET words == split(specificModelOf(searchTerm), " ")
      specificBrand == words[1]
      specificModel == IF Len(words) >= 2 THEN words[2] ELSE Undefined
  IN SelectSeq(cars, LAMBDA car :
       /\ toLowerCase(car.brand) = toLowerCase(specificBrand)
       /\ includes(toLowerCase(car.model), toLowerCase(specificModel)))

\* A TypeError inside the text stage: a record without make or model
textStageThrows(cars, params) ==
  /\ hasQuery(params)
  /\ \E i \in 1..Len(cars) : cars[i].brand = Undefined \/ cars[i].model = Undefined

\* The secondary pass is attempted: the primary pass kept nothing and the
\* search term is a key of specificModels
secondaryRuns(cars, params) ==
  /\ hasQuery(params)
  /\ Len(primaryPass(cars, searchTermOf(params))) = 0
  /\ hasSpecificModel(searchTermOf(params))

textStage(cars, params) ==
  IF ~hasQuery(params) THEN cars
  ELSE LET primary == primaryPass(cars, searchTermOf(params))
       IN IF Len(primary) = 0 /\ hasSpecificModel(searchTermOf(params))
          THEN secondaryPass(cars, searchTermOf(params))
          ELSE primary

\* The brand filter skipped when a text query is present
brandFilterUnlessQuery(cars, params) ==
  IF Has(params, "brands") /\ Len(params.brands) > 0 /\ ~hasQuery(params)
  THEN SelectSeq(cars, LAMBDA car :
         \E i \in 1..Len(params.brands) : params.brands[i] = car.brand)
  ELSE cars

brandFilter(cars, params) ==
  IF Has(params, "brands") /\ Len(params.brands) > 0
  THEN SelectSeq(cars, LAMBDA car :
         \E i \in 1..Len(params.brands) : params.brands[i] = car.brand)
  ELSE cars

\* The price filter with the upper bound left out
priceFilterMinOnly(cars, params) ==
  IF Has(params, "minPrice")
  THEN SelectSeq(cars, LAMBDA car : Geq(car.price, params.minPrice))
  ELSE cars

priceFilter(cars, params) ==
  LET atLeast == IF Has(params, "minPrice")
                 THEN SelectSeq(cars, LAMBDA car : Geq(car.price, params.minPrice))
                 ELSE cars
  IN IF Has(params, "maxPrice")
     THEN SelectSeq(atLeast, LAMBDA car : Leq(car.price, params.maxPrice))
     ELSE atLeast

fuelTypeFilter(cars, params) ==
  IF Has(params, "fuelTypes") /\ Len(params.fuelTypes) > 0
  THEN SelectSeq(cars, LAMBDA car :
         \E i \in 1..Len(params.fuelTypes) : params.fuelTypes[i] = car.fuelType)
  ELSE cars

seatingFilter(cars, params) ==
  IF Has(params, "seatingCapacity")
  THEN SelectSeq(cars, LAMBDA car : car.seatingCapacity = params.seatingCapacity)
  ELSE cars

\* The body-type filter applied only to records that have a body type
bodyTypeFilterIfPresent(cars, params) ==
  IF Has(params, "bodyTypes") /\ Len(params.bodyTypes) > 0
  THEN SelectSeq(cars, LAMBDA car :
         \/ car.bodyType = Null
         \/ \E i \in 1..Len(params.bodyTypes) : params.bodyTypes[i] = car.bodyType)
  ELSE cars

bodyTypeFilter(cars, params) ==
  IF Has(params, "bodyTypes") /\ Len(params.bodyTypes) > 0
  THEN SelectSeq(cars, LAMBDA car :
         /\ car.bodyType # Null
         /\ \E i \in 1..Len(params.bodyTypes) : params.bodyTypes[i] = car.bodyType)
  ELSE cars

\* Array.prototype.sort((a, b) => a.price - b.price): a stable merge sort.
\* merge(a, b) merges two sorted runs, records of `a` going before records
\* of `b` of equal price.
RECURSIVE merge(_, _)
merge(a, b) ==
  IF a = <<>> THEN b
  ELSE IF b = <<>> THEN a
  ELSE LET m == (Len(a) + 1) \div 2
           c == Cardinality({j \in 1..Len(b) : b[j].price < a[m].price})
       IN merge(SubSeq(a, 1, m - 1), SubSeq(b, 1, c))
          \o <<a[m]>>
          \o merge(SubSeq(a, m + 1, Len(a)), SubSeq(b, c + 1, Len(b)))

RECURSIVE sortByPrice(_)
sortByPrice(cars) ==
  IF Len(cars) <= 1 THEN cars
  ELSE LET half == Len(cars) \div 2
       IN merge(sortByPrice(SubSeq(cars, 1, half)),
                sortByPrice(SubSeq(cars, half + 1, Len(cars))))

\* The pipeline with the text stage after the other filters: the primary
\* pass reads the filtered records
filteredCarsTextLast(cars, params) ==
  LET filtered ==
        bodyTypeFilter(
          seatingFilter(
            fuelTypeFilter(
              priceFilter(
                brandFilter(cars, params), params), params), params), params)
      primary == primaryPass(filtered, searchTermOf(params))
  IN sortByPrice(
       IF ~hasQuery(params) THEN filtered
       ELSE IF Len(primary) = 0 /\ hasSpecificModel(searchTermOf(params))
       THEN secondaryPass(cars, searchTermOf(params))
       ELSE primary)

\* The pipeline with the order of the result following params.sortOrder
filteredCarsSortOrder(cars, params) ==
  LET sorted ==
        sortByPrice(
          bodyTypeFilter(
            seatingFilter(
              fuelTypeFilter(
                priceFilter(
                  brandFilter(
                    textStage(cars, params), params), params), params), params), params))
  IN IF Has(params, "sortOrder") /\ params.sortOrder = <<"d","e","s","c">>
     THEN [i \in 1..Len(sorted) |-> sorted[Len(sorted) + 1 - i]]
     ELSE sorted

\* The filter stages of searchCars in source order, then the sort
filteredCars(cars, params) ==
  sortByPrice(
    bodyTypeFilter(
      seatingFilter(
        fuelTypeFilter(
          priceFilter(
            brandFilter(
              textStage(cars, params), params), params), params), params), params))

\* filteredCars.slice(offset, offset + limit)
paginate(cars, params) ==
  slice(cars, params.offset, Plus(params.offset, params.limit))

\* What searchCars returns once `cars` is known: the page, or [] from the
\* outer catch when the text stage throws
searchResult(cars, params) ==
  IF textStageThrows(cars, params) THEN <<>>
  ELSE paginate(filteredCars(cars, params), params)

\* The URLSearchParams of the upstream search call, in insertion order.
\* `year` is never set by the route, so it never appears.
searchParams(params) ==
  (IF hasQuery(params) THEN << <<"query", params.query>> >> ELSE <<>>)
  \o (IF Has(params, "brands") /\ Len(params.brands) > 0
      THEN << <<"brand", join(params.brands, ",")>> >> ELSE <<>>)
  \o (IF Has(params, "minPrice")
      THEN << <<"minPrice", toString(params.minPrice)>> >> ELSE <<>>)
  \o (IF Has(params, "maxPrice")
      THEN << <<"maxPrice", toString(params.maxPrice)>> >> ELSE <<>>)
  \o (IF Has(params, "bodyTypes") /\ Len(params.bodyTypes) > 0
      THEN << <<"bodyType", join(params.bodyTypes, ",")>> >> ELSE <<>>)
  \o << <<"limit", toString(params.limit)>>,
        <<"offset", toString(params.offset)>> >>

----------------------------------------------------------------------------
(* GET /api/cars/search: query-string extraction *)

\* req.query.X ? ... : ...  -- a query-string value is truthy when non-empty
truthy(query, key) == Has(query, key) /\ query[key] # <<>>

\* The `params` object the route builds from req.query.  sortBy and sortOrder
\* are copied but searchCars never reads them.
routeParams(query) ==
  LET keys == {k \in {"query", "sortBy", "sortOrder"} : Has(query, k)}
              \cup {k \in {"brands", "minPrice", "maxPrice", "fuelTypes",
                           "seatingCapacity", "bodyTypes"} : truthy(query, k)}
              \cup {"limit", "offset"}
  IN [k \in keys |->
        CASE k \in {"query", "sortBy", "sortOrder"} -> query[k]
          [] k \in {"brands", "fuelTypes", "bodyTypes"} -> split(query[k], ",")
          [] k \in {"minPrice", "maxPrice", "seatingCapacity"} -> Number(query[k])
          [] k = "limit" -> IF truthy(query, "limit") THEN Number(query.limit) ELSE 10
          [] k = "offset" -> IF truthy(query, "offset") THEN Number(query.offset) ELSE 0]

----------------------------------------------------------------------------
(* The upstream catalog service, as the server sees it *)

\* A parsed JSON body: an array of items, or something that is not an array
jsonArray(items) == [isArray |-> TRUE, items |-> items]
jsonObject == [isArray |-> FALSE]
jsonItem(item) == [isArray |-> FALSE, item |-> item]

\* Bodies the upstream may answer a /car/search call with: the page the
\* limit and offset of the URL ask for, the whole catalog (pagination
\* ignored), the part of the catalog of recent model years, an array holding
\* a record without `make`, or a JSON object
upstreamSearchBodies(params) ==
  { jsonArray(slice(UpstreamCatalog, params.offset,
                    Plus(params.offset, params.limit))),
    jsonArray(UpstreamCatalog),
    jsonArray(SelectSeq(UpstreamCatalog, LAMBDA apiCar : apiCar.year >= 2023)),
    jsonArray(<< [make |-> Undefined, model |-> <<"X">>,
                  year |-> 2020, type |-> Undefined] >>),
    jsonObject }

\* Bodies the upstream may answer /car/brands and /car/types with
upstreamBrandBodies ==
  { jsonArray(<< <<"F","o","r","d">>, <<"K","i","a">> >>),
    jsonArray(<< <<"F","o","r","d">> >>) }

upstreamTypeBodies == { jsonArray(<< <<"S","U","V">> >>) }

\* Bodies the upstream may answer a /car/<id> call with: the record it holds
\* under that id, if any
upstreamCarBodies(id) ==
  {jsonItem(UpstreamCatalog[i]) :
     i \in {j \in 1..Len(UpstreamCatalog) : UpstreamCatalog[j].id = id}}

\* searchCars({ limit: 100 }) with the defaults of its destructuring
broadParams == [limit |-> 100, offset |-> 0]

upstreamBodies(ctx) ==
  CASE ctx.route = "search" -> upstreamSearchBodies(ctx.params)
    [] ctx.route = "car" -> IF ctx.stage = "direct" THEN upstreamCarBodies(ctx.id)
                            ELSE upstreamSearchBodies(broadParams)
    [] ctx.route = "brands" -> upstreamBrandBodies
    [] ctx.route = "types" -> upstreamTypeBodies

\* How `await fetch(url)` settles: rejected, a non-2xx response, a 2xx response
FetchOutcomes == {"network", "status", "ok"}

\* How `await response.json()` settles: rejected, or a parsed body
jsonOutcomes(ctx) ==
  {[ok |-> FALSE]} \cup {[ok |-> TRUE, data |-> d] : d \in upstreamBodies(ctx)}

----------------------------------------------------------------------------
(* Request handlers *)

Tapes == 0..MaxSeed

NoEntry == -1

Idle == [pc |-> "idle"]

transportCount(url) == IF Has(transport, url) THEN transport[url] ELSE 0

RECURSIVE sumOver(_, _)
sumOver(f, keys) ==
  IF keys = {} THEN 0
  ELSE LET k == CHOOSE x \in keys : TRUE IN f[k] + sumOver(f, keys \ {k})

\* Upstream calls made so far, over all URLs
transportTotal == sumOver(transport, DOMAIN transport)

\* The inner try/catch of searchCars with an empty catch block
collectCarsNoFallback(params, fetched, year, tape) ==
  IF fetched.ok /\ fetched.data.isArray
  THEN mapApiCars(fetched.data.items, tape)
  ELSE <<>>

\* The inner try/catch of searchCars: the mapped upstream records, or the
\* fallback batch when fetchFromAPI or the mapping threw
collectCars(params, fetched, year, tape) ==
  IF fetched.ok /\ fetched.data.isArray
  THEN mapApiCars(fetched.data.items, tape)
  ELSE fallbackCars(params, year, tape)

\* searchCars from the point where fetchFromAPI has settled.  `fetched.ok`
\* says whether fetchFromAPI returned (`fetched.data`) or threw.  The mapping
\* of a body that is not an array throws inside the inner try, which the
\* catch block answers with the fallback generator.
searchCarsSettled(ctx, fetched, tape) ==
  LET mapped == fetched.ok /\ fetched.data.isArray
      cars == collectCars(ctx.params, fetched, currentYear, tape)
      threw == textStageThrows(cars, ctx.params)
  IN [ pc |-> "done",
       fetched |-> fetched,
       source |-> IF mapped THEN "upstream" ELSE "fallback",
       tape |-> tape,
       year |-> currentYear,
       cars |-> cars,
       threw |-> threw,
       primary |-> IF threw \/ ~hasQuery(ctx.params) THEN NoEntry
                   ELSE Len(primaryPass(cars, searchTermOf(ctx.params))),
       consulted |-> ~threw /\ secondaryRuns(cars, ctx.params),
       status |-> 200,
       body |-> searchResult(cars, ctx.params) ] @@ ctx

\* getCarBrands / getCarTypes from the point where fetchFromAPI has settled,
\* and the res.json of their routes
listSettled(ctx, fetched) ==
  [ pc |-> "done",
    fetched |-> fetched,
    status |-> 200,
    body |-> IF fetched.ok THEN fetched.data
             ELSE IF ctx.route = "brands" THEN jsonArray(fallbackBrands)
             ELSE jsonArray(fallbackTypes) ] @@ ctx

\* The records with the given id in the array payloads of the cache entries
\* (for (const cacheKey in cache) ... data.find(car => car.id === id)).  The
\* entries are not tested with isCacheValid.
cacheScan(c, id) ==
  UNION { { c[u].data.items[j] :
              j \in {k \in 1..Len(c[u].data.items) :
                       /\ Has(c[u].data.items[k], "id")
                       /\ id # NaN
                       /\ c[u].data.items[k].id = id} } :
          u \in {v \in DOMAIN c : c[v].data.isArray} }

\* The entries of the cache that isCacheValid accepts at time t
validEntries(c, t) == [u \in {v \in DOMAIN c : isCacheValid(c, v, t)} |-> c[u]]

\* allCars.find(car => car.id === id) over the result of the broad search
broadFind(cars, id) ==
  LET allCars == searchResult(cars, broadParams)
      hits == {i \in 1..Len(allCars) : id # NaN /\ allCars[i].id = id}
  IN IF hits = {} THEN <<>>
     ELSE <<allCars[CHOOSE i \in hits : \A j \in hits : i <= j]>>

\* The route answers with what getCarById returned, `found`: a tuple holding
\* the record, or the empty tuple for undefined, which is answered 404
lookupDone(ctx, from, found) ==
  [ pc |-> "done",
    from |-> from,
    status |-> IF found = <<>> THEN 404 ELSE 200,
    body |-> found ] @@ ctx

\* getCarById giving up after the cache scan, without the broad search
getCarByIdNoBroadSearch(r, ctx, fetched, tape) ==
  /\ reqs' = [reqs EXCEPT ![r] =
       IF fetched.ok
       THEN [directOk |-> TRUE] @@
            lookupDone(ctx, "direct",
                       <<mapApiCarToCar(fetched.data.item, ctx.id, tape, 0)>>)
       ELSE LET matches == cacheScan(cache, ctx.id)
                scanned == [ directOk |-> FALSE,
                             scan |-> matches,
                             scanValid |-> cacheScan(validEntries(cache, now), ctx.id),
                             stages |-> <<"direct", "scan">> ] @@ ctx
            IN lookupDone(scanned, "scan",
                          IF matches = {} THEN <<>> ELSE <<CHOOSE car \in matches : TRUE>>)]
  /\ UNCHANGED transport

\* getCarById from the point where a fetchFromAPI call of it has settled:
\* the direct fetch (stage "direct") or the one of the broad search (stage
\* "broad").  `stages` lists the lookup stages run so far, `directOk` says
\* whether the direct fetch returned, `scan` is what the cache scan found and
\* `scanValid` what it would have found in the entries that are still valid.
getCarByIdSettled(r, ctx, fetched, tape) ==
  IF ctx.stage = "broad"
  THEN /\ reqs' = [reqs EXCEPT ![r] =
                     lookupDone(ctx, "broad",
                                broadFind(collectCars(broadParams, fetched, currentYear, tape),
                                          ctx.id))]
       /\ UNCHANGED transport
  ELSE IF fetched.ok
  THEN /\ reqs' = [reqs EXCEPT ![r] =
                     [directOk |-> TRUE] @@
                     lookupDone(ctx, "direct",
                                <<mapApiCarToCar(fetched.data.item, ctx.id, tape, 0)>>)]
       /\ UNCHANGED transport
  ELSE LET matches == cacheScan(cache, ctx.id)
           scanned == [ directOk |-> FALSE,
                        scan |-> matches,
                        scanValid |-> cacheScan(validEntries(cache, now), ctx.id),
                        stages |-> <<"direct", "scan">> ] @@ ctx
           url == apiUrl("/car/search", searchParams(broadParams))
           broad == [ stage |-> "broad", url |-> url,
                      stages |-> <<"direct", "scan", "broad">> ] @@ scanned
       IN IF matches # {}
          THEN /\ reqs' = [reqs EXCEPT ![r] =
                             lookupDone(scanned, "scan", <<CHOOSE car \in matches : TRUE>>)]
               /\ UNCHANGED transport
          ELSE IF isCacheValid(cache, url, now)
          THEN /\ reqs' = [reqs EXCEPT ![r] =
                             lookupDone(broad, "broad",
                                        broadFind(collectCars(broadParams,
                                                              [ok |-> TRUE, data |-> cache[url].data],
                                                              currentYear, tape),
                                                  ctx.id))]
               /\ UNCHANGED transport
          ELSE /\ reqs' = [reqs EXCEPT ![r] = [pc |-> "fetch"] @@ broad]
               /\ transport' = [u \in DOMAIN transport \cup {url} |->
                                  IF u = url THEN transportCount(u) + 1
                                  ELSE transport[u]]

\* The handler whose context is `ctx` runs on once fetchFromAPI has settled,
\* to its end or to its next upstream call; the Math.random values it
\* consumes are those of some tape
Settle(r, ctx, fetched) ==
  IF ctx.route = "search"
  THEN /\ \E tape \in Tapes :
            reqs' = [reqs EXCEPT ![r] = searchCarsSettled(ctx, fetched, tape)]
       /\ UNCHANGED transport
  ELSE IF ctx.route = "car"
  THEN \E tape \in Tapes : getCarByIdSettled(r, ctx, fetched, tape)
  ELSE /\ reqs' = [reqs EXCEPT ![r] = listSettled(ctx, fetched)]
       /\ UNCHANGED transport

\* fetchFromAPI with request coalescing: a call for a URL that another
\* request is already fetching joins that call instead of issuing its own
fetchFromAPISingleFlight(r, call) ==
  LET hit == isCacheValid(cache, call.url, now)
      pending == \E q \in Requests \ {r} :
                   reqs[q].pc \in {"fetch", "json"} /\ reqs[q].url = call.url
      ctx == [ entryAge |-> IF Has(cache, call.url)
                            THEN now - cache[call.url].timestamp ELSE NoEntry,
               invoked |-> ~hit ] @@ call
  IN IF hit
     THEN Settle(r, ctx, [ok |-> TRUE, outcome |-> "cached",
                          data |-> cache[call.url].data])
     ELSE /\ transportTotal < MaxCalls
          /\ reqs' = [reqs EXCEPT ![r] = [pc |-> "fetch"] @@ ctx]
          /\ transport' = [u \in DOMAIN transport \cup {call.url} |->
                             IF u = call.url /\ ~pending THEN transportCount(u) + 1
                             ELSE transportCount(u)]

\* fetchFromAPI up to its first await: a valid cache entry is returned at
\* once, otherwise node-fetch is invoked and the handler is suspended
fetchFromAPI(r, call) ==
  LET hit == isCacheValid(cache, call.url, now)
      ctx == [ entryAge |-> IF Has(cache, call.url)
                            THEN now - cache[call.url].timestamp ELSE NoEntry,
               invoked |-> ~hit ] @@ call
  IN IF hit
     THEN Settle(r, ctx, [ok |-> TRUE, outcome |-> "cached",
                          data |-> cache[call.url].data])
     ELSE /\ transportTotal < MaxCalls
          /\ reqs' = [reqs EXCEPT ![r] = [pc |-> "fetch"] @@ ctx]
          /\ transport' = [u \in DOMAIN transport \cup {call.url} |->
                             IF u = call.url THEN transportCount(u) + 1
                             ELSE transport[u]]

\* GET /api/cars/search with the query string `query`
GetCarsSearch(r, query) ==
  /\ reqs[r].pc = "idle"
  /\ LET params == routeParams(query)
     IN fetchFromAPI(r, [ route |-> "search", query |-> query, params |-> params,
                          url |-> apiUrl("/car/search", searchParams(params)) ])
  /\ UNCHANGED <<now, ticks, currentYear, cache, users, currentUserId, sessions, clientVars>>

\* GET /api/cars/:id with the path parameter `param`: getCarById up to the
\* first await of its direct fetch
GetCarById(r, param) ==
  /\ reqs[r].pc = "idle"
  /\ LET id == parseInt(param)
     IN fetchFromAPI(r, [ route |-> "car", id |-> id, stage |-> "direct",
                          stages |-> <<"direct">>,
                          url |-> apiUrl("/car/", << <<"id", toString(id)>> >>) ])
  /\ UNCHANGED <<now, ticks, currentYear, cache, users, currentUserId, sessions, clientVars>>

\* GET /api/car-brands
GetCarBrands(r) ==
  /\ reqs[r].pc = "idle"
  /\ fetchFromAPI(r, [route |-> "brands", url |-> apiUrl("/car/brands", <<>>)])
  /\ UNCHANGED <<now, ticks, currentYear, cache, users, currentUserId, sessions, clientVars>>

\* GET /api/car-types
GetCarTypes(r) ==
  /\ reqs[r].pc = "idle"
  /\ fetchFromAPI(r, [route |-> "types", url |-> apiUrl("/car/types", <<>>)])
  /\ UNCHANGED <<now, ticks, currentYear, cache, users, currentUserId, sessions, clientVars>>

\* The await with one retry: a failed first call is issued again
FetchSettlesRetrying(r, outcome) ==
  /\ reqs[r].pc = "fetch"
  /\ IF outcome = "ok"
     THEN /\ reqs' = [reqs EXCEPT ![r].pc = "json"]
          /\ UNCHANGED transport
     ELSE IF transportCount(reqs[r].url) < 2
     THEN /\ transport' = [transport EXCEPT ![reqs[r].url] = @ + 1]
          /\ UNCHANGED reqs
     ELSE Settle(r, reqs[r], [ok |-> FALSE, outcome |-> outcome])
  /\ UNCHANGED <<now, ticks, currentYear, cache, users, currentUserId, sessions, clientVars>>

\* `await fetch(url)` settles for request r
FetchSettles(r, outcome) ==
  /\ reqs[r].pc = "fetch"
  /\ IF outcome = "ok"
     THEN /\ reqs' = [reqs EXCEPT ![r].pc = "json"]
          /\ UNCHANGED transport
     ELSE Settle(r, reqs[r], [ok |-> FALSE, outcome |-> outcome])
  /\ UNCHANGED <<now, ticks, currentYear, cache, users, currentUserId, sessions, clientVars>>

\* `await response.json()` with a rejected parse stored as an empty list
JsonSettlesCachingFailure(r) ==
  /\ reqs[r].pc = "json"
  /\ \E outcome \in jsonOutcomes(reqs[r]) :
       IF outcome.ok
       THEN /\ cache' = cachePut(cache, reqs[r].url, now, outcome.data)
            /\ Settle(r, reqs[r], [ok |-> TRUE, outcome |-> "ok",
                                   data |-> outcome.data])
       ELSE /\ Settle(r, reqs[r], [ok |-> FALSE, outcome |-> "parse"])
            /\ cache' = cachePut(cache, reqs[r].url, now,
                                 [isArray |-> TRUE, items |-> <<>>])
  /\ UNCHANGED <<now, ticks, currentYear, users, currentUserId, sessions, clientVars>>

\* `await response.json()` settles for request r; a parsed body is cached
\* under the URL with the time of this step
JsonSettles(r) ==
  /\ reqs[r].pc = "json"
  /\ \E outcome \in jsonOutcomes(reqs[r]) :
       IF outcome.ok
       THEN /\ cache' = cachePut(cache, reqs[r].url, now, outcome.data)
            /\ Settle(r, reqs[r], [ok |-> TRUE, outcome |-> "ok",
                                   data |-> outcome.data])
       ELSE /\ Settle(r, reqs[r], [ok |-> FALSE, outcome |-> "parse"])
            /\ UNCHANGED cache
  /\ UNCHANGED <<now, ticks, currentYear, users, currentUserId, sessions, clientVars>>

\* The response of request r has been sent and its context is dropped
Close(r) ==
  /\ reqs[r].pc = "done"
  /\ reqs' = [reqs EXCEPT ![r] = Idle]
  /\ UNCHANGED <<now, ticks, currentYear, cache, transport, users, currentUserId, sessions, clientVars>>

\* Time passes
TickSteps == {1, CACHE_EXPIRY - 1}

Tick(d) ==
  /\ ticks < MaxTicks
  /\ now' = now + d
  /\ ticks' = ticks + 1
  /\ UNCHANGED <<currentYear, cache, transport, reqs, users, currentUserId, sessions, clientVars>>

\* The calendar year changes
NewYear ==
  /\ currentYear < FirstYear + MaxNewYears
  /\ currentYear' = currentYear + 1
  /\ UNCHANGED <<now, ticks, cache, transport, reqs, users, currentUserId, sessions, clientVars>>

----------------------------------------------------------------------------
(* Request inputs *)

\* An optional input is a tuple of length 0 (absent) or 1 (the value)
Opt(name, o) == IF o = <<>> THEN {} ELSE {<<name, o[1]>>}

\* The req.query object holding the given name/value pairs
rawQuery(fields) ==
  [k \in {f[1] : f \in fields} |-> (CHOOSE f \in fields : f[1] = k)[2]]

\* Query strings of GET /api/cars/search explored by SpecSearch
TextQueries ==
  { rawQuery(Opt("query", q) \cup Opt("brands", b)) :
      q \in {<<>>, <<qMustang>>, <<qMustangPadded>>, <<qSkyline>>, <<qSuv>>,
             <<qToyotaCamry>>, <<qBlank>>},
      b \in {<<>>, <<bToyota>>, <<bNissan>>, <<bFordNissan>>, <<bUnknown>>} }

PriceQueries ==
  { rawQuery(Opt("minPrice", lo) \cup Opt("maxPrice", hi) \cup Opt("brands", b)) :
      lo \in {<<>>, <<n0>>, <<n34000>>, <<n36000>>, <<nAbc>>},
      hi \in {<<>>, <<n30000>>, <<n36000>>, <<n38000>>},
      b \in {<<bToyota>>} }

FacetQueries ==
  { rawQuery({<<"brands", bToyota>>} \cup Opt("fuelTypes", f)
             \cup Opt("seatingCapacity", s) \cup Opt("bodyTypes", t)
             \cup Opt("limit", l)) :
      f \in {<<>>, <<fPetrol>>, <<fPetrolDiesel>>},
      s \in {<<>>, <<n7>>, <<n5>>},
      t \in {<<>>, <<tSUV>>, <<tSUVSedan>>},
      l \in {<<>>} }
  \cup { rawQuery({<<"brands", bToyota>>, <<"bodyTypes", tSUV>>,
                   <<"limit", n10>>, <<"offset", n0>>}) }
  \cup { rawQuery({<<"bodyTypes", tSUVSedan>>}) }

PageQueries ==
  { rawQuery({<<"brands", bToyotaHonda>>} \cup Opt("limit", l) \cup Opt("offset", o)) :
      l \in {<<>>, <<n0>>, <<n10>>, <<n50>>, <<n51>>, <<n100>>, <<nMinus1>>, <<nAbc>>},
      o \in {<<>>, <<n0>>, <<n10>>, <<nMinus5>>} }

\* Query strings explored by SpecPair, where two requests are served
PairQueries ==
  { rawQuery({<<"brands", bToyota>>, <<"limit", n10>>} \cup Opt("bodyTypes", t)
             \cup Opt("offset", o)) :
      t \in {<<>>, <<tSUV>>},
      o \in {<<n0>>, <<n10>>} }

SortQueries ==
  { rawQuery({<<"brands", bToyota>>} \cup Opt("sortBy", by) \cup Opt("sortOrder", order)) :
      by \in {<<>>, <<sPrice>>, <<sYear>>},
      order \in {<<>>, <<sAsc>>, <<sDesc>>} }

SpecificQueries == { rawQuery({<<"query", q>>}) : q \in {qModel3, qRangeRover} }

SearchQueries ==
  TextQueries \cup PriceQueries \cup FacetQueries \cup PageQueries \cup SortQueries
    \cup SpecificQueries

\* Path parameters of GET /api/cars/:id explored by SpecLookup
LookupParams == { <<"3">>, <<"6","0","0">> }

----------------------------------------------------------------------------
(* Accounts: the user store and the session layer *)

Usernames == {"ana", "bo"}

NoUser == 0

\* MemStorage.createUser: const id = this.currentUserId++;
\* this.users.set(id, { ...insertUser, id })
createUser(insertUser) ==
  /\ users' = [id \in DOMAIN users \cup {currentUserId} |->
                 IF id = currentUserId
                 THEN [username |-> insertUser.username, id |-> currentUserId]
                 ELSE users[id]]
  /\ currentUserId' = currentUserId + 1

\* A user record is created
CreateUser(username) ==
  /\ currentUserId <= MaxUsers
  /\ createUser([username |-> username])
  /\ UNCHANGED <<now, ticks, currentYear, cache, transport, reqs, sessions, clientVars>>

\* storage.deleteUser(userId): the record is removed
deleteUser(userId) == [id \in DOMAIN users \ {userId} |-> users[id]]

\* req.isAuthenticated() of a request that carries session sid
isAuthenticated(sid) == sessions[sid].live /\ sessions[sid].user # NoUser

\* req.user?.id of a request that carries session sid
userIdOf(sid) == sessions[sid].user

\* The session after req.logout succeeded
logout(sid) == [sessions EXCEPT ![sid].live = FALSE, ![sid].user = NoUser]

\* POST /api/login of an existing user: a new session is established.
\* `answers` lists the statuses DELETE /api/user has answered on the session,
\* `deleted` the user whose deletion it answered with 200
Login(userId) ==
  /\ Len(sessions) < MaxSessions
  /\ userId \in DOMAIN users
  /\ sessions' = Append(sessions, [user |-> userId, live |-> TRUE,
                                   deleted |-> NoUser, answers |-> <<>>])
  /\ UNCHANGED <<now, ticks, currentYear, cache, transport, reqs, users, currentUserId, clientVars>>

\* POST /api/logout
Logout(sid) ==
  /\ sid \in 1..Len(sessions)
  /\ isAuthenticated(sid)
  /\ sessions' = logout(sid)
  /\ UNCHANGED <<now, ticks, currentYear, cache, transport, reqs, users, currentUserId, clientVars>>

\* The response of DELETE /api/user is recorded on the session
answered(ss, sid, status) ==
  [ss EXCEPT ![sid].answers = Append(@, status)]

\* DELETE /api/user without the req.isAuthenticated() check
DeleteApiUserUnchecked(sid, stored, loggedOut) ==
  /\ sid \in 1..Len(sessions)
  /\ Len(sessions[sid].answers) < MaxDeletes
  /\ IF userIdOf(sid) = 0
     THEN /\ sessions' = answered(sessions, sid, 400)
          /\ UNCHANGED users
     ELSE IF ~stored
     THEN /\ sessions' = answered(sessions, sid, 500)
          /\ UNCHANGED users
     ELSE /\ users' = deleteUser(userIdOf(sid))
          /\ IF ~loggedOut
             THEN sessions' = answered(sessions, sid, 500)
             ELSE sessions' = answered([logout(sid) EXCEPT ![sid].deleted = userIdOf(sid)],
                                       sid, 200)
  /\ UNCHANGED <<now, ticks, currentYear, cache, transport, reqs, currentUserId, clientVars>>

\* DELETE /api/user without the logout step: 200 right after the deletion
DeleteApiUserKeepsSession(sid, stored, loggedOut) ==
  /\ sid \in 1..Len(sessions)
  /\ Len(sessions[sid].answers) < MaxDeletes
  /\ IF ~isAuthenticated(sid)
     THEN /\ sessions' = answered(sessions, sid, 401)
          /\ UNCHANGED users
     ELSE IF userIdOf(sid) = 0
     THEN /\ sessions' = answered(sessions, sid, 400)
          /\ UNCHANGED users
     ELSE IF ~stored
     THEN /\ sessions' = answered(sessions, sid, 500)
          /\ UNCHANGED users
     ELSE /\ users' = deleteUser(userIdOf(sid))
          /\ sessions' = answered([sessions EXCEPT ![sid].deleted = userIdOf(sid)],
                                  sid, 200)
  /\ UNCHANGED <<now, ticks, currentYear, cache, transport, reqs, currentUserId, clientVars>>

\* DELETE /api/user on session sid.  `stored` says whether storage.deleteUser
\* resolved or threw, `loggedOut` whether req.logout called back without or
\* with an error
DeleteApiUser(sid, stored, loggedOut) ==
  /\ sid \in 1..Len(sessions)
  /\ Len(sessions[sid].answers) < MaxDeletes
  /\ IF ~isAuthenticated(sid)
     THEN /\ sessions' = answered(sessions, sid, 401)
          /\ UNCHANGED users
     ELSE IF userIdOf(sid) = 0
     THEN /\ sessions' = answered(sessions, sid, 400)
          /\ UNCHANGED users
     ELSE IF ~stored
     THEN /\ sessions' = answered(sessions, sid, 500)
          /\ UNCHANGED users
     ELSE /\ users' = deleteUser(userIdOf(sid))
          /\ IF ~loggedOut
             THEN sessions' = answered(sessions, sid, 500)
             ELSE sessions' = answered([logout(sid) EXCEPT ![sid].deleted = userIdOf(sid)],
                                       sid, 200)
  /\ UNCHANGED <<now, ticks, currentYear, cache, transport, reqs, currentUserId, clientVars>>

----------------------------------------------------------------------------
(* Client: the search-history hook *)

MAX_HISTORY_ITEMS == 10

\* !term.trim()
isBlank(term) == trim(term) = <<>>

\* The updater of addSearchTerm with a case-sensitive duplicate test
addSearchTermCaseSensitive(prev, term) ==
  IF isBlank(term) THEN prev
  ELSE slice(<<term>> \o SelectSeq(prev, LAMBDA item : item # term),
             0, MAX_HISTORY_ITEMS)

\* addSearchTerm: nothing for a blank term, otherwise
\* [term, ...prev.filter(item => item.toLowerCase() !== term.toLowerCase())]
\*   .slice(0, MAX_HISTORY_ITEMS)
addSearchTerm(prev, term) ==
  IF isBlank(term) THEN prev
  ELSE slice(<<term>> \o SelectSeq(prev, LAMBDA item :
                                     toLowerCase(item) # toLowerCase(term)),
             0, MAX_HISTORY_ITEMS)

\* removeSearchTerm: prev.filter(item => item !== term)
removeSearchTerm(prev, term) == SelectSeq(prev, LAMBDA item : item # term)

\* What the hook finds in localStorage when it is constructed: nothing, or
\* the history a previous visit left after nine searches
earlierSearches ==
  << <<"c","i","v","i","c">>, <<"g","t","r">>, <<"t","h","a","r">>,
     <<"s","u","v">>, <<"B","M","W">>, <<"n","e","x","o","n">>,
     <<"a","l","t","o">>, <<"k","5">>, <<"s","w","i","f","t">> >>

RECURSIVE addAll(_, _)
addAll(prev, terms) ==
  IF terms = <<>> THEN prev
  ELSE addAll(addSearchTerm(prev, Head(terms)), Tail(terms))

StoredHistories == {<<>>, addAll(<<>>, earlierSearches)}

\* The terms typed in this visit
SearchTerms ==
  { <<"m","u","s","t","a","n","g">>, <<"M","u","s","t","a","n","g">>,
    <<"b","m","w">>, <<"r","8">>, <<>>, <<" "," ">> }

historyCalls == calls.history.count

AddSearchTerm(term) ==
  /\ historyCalls < MaxHistoryCalls
  /\ searchHistory' = addSearchTerm(searchHistory, term)
  /\ calls' = [calls EXCEPT !.history =
                 [op |-> "add", term |-> term, count |-> historyCalls + 1,
                  added |-> IF isBlank(term) THEN @.added ELSE <<term>>]]
  /\ UNCHANGED <<serverVars, homeVars, wishlist, updates>>

RemoveSearchTerm(term) ==
  /\ historyCalls < MaxHistoryCalls
  /\ searchHistory' = removeSearchTerm(searchHistory, term)
  /\ calls' = [calls EXCEPT !.history =
                 [op |-> "remove", term |-> term, count |-> historyCalls + 1,
                  added |-> @.added]]
  /\ UNCHANGED <<serverVars, homeVars, wishlist, updates>>

ClearSearchHistory ==
  /\ historyCalls < MaxHistoryCalls
  /\ searchHistory' = <<>>
  /\ calls' = [calls EXCEPT !.history =
                 [op |-> "clear", term |-> <<>>, count |-> historyCalls + 1,
                  added |-> @.added]]
  /\ UNCHANGED <<serverVars, homeVars, wishlist, updates>>

----------------------------------------------------------------------------
(* Client: the wishlist provider.  `wishlist` is the array the functions of
   the current render close over; setWishlist(updater) queues the updater,
   and the next render applies the queue in order. *)

\* Cars shown on cards; ids are positions in a result set, so two different
\* cars can carry the same id
WishlistCars ==
  { [id |-> 1, model |-> <<"C","a","m","r","y">>],
    [id |-> 1, model |-> <<"G","T","R">>],
    [id |-> 2, model |-> <<"C","i","v","i","c">>] }

\* isInWishlist: wishlist.some(car => car.id === carId)
isInWishlist(carId) == \E i \in 1..Len(wishlist) : wishlist[i].id = carId

\* One queued updater applied to the state it receives
applyUpdate(prev, u) ==
  CASE u.op = "append" -> Append(prev, u.car)
    [] u.op = "filter" -> SelectSeq(prev, LAMBDA car : car.id # u.id)
    [] u.op = "clear" -> <<>>

RECURSIVE applyUpdates(_, _)
applyUpdates(prev, us) ==
  IF us = <<>> THEN prev ELSE applyUpdates(applyUpdate(prev, Head(us)), Tail(us))

\* addToWishlist: if (!isInWishlist(car.id)) setWishlist(prev => [...prev, car])
addToWishlist(car) ==
  IF ~isInWishlist(car.id)
  THEN Append(updates, [op |-> "append", car |-> car])
  ELSE updates

\* removeFromWishlist: setWishlist(prev => prev.filter(car => car.id !== carId))
removeFromWishlist(carId) == Append(updates, [op |-> "filter", id |-> carId])

\* toggleWishlist
toggleWishlist(car) ==
  IF isInWishlist(car.id) THEN removeFromWishlist(car.id) ELSE addToWishlist(car)

wishlistCalls == calls.wishlist.count

wishlistCall(op, id) ==
  /\ wishlistCalls < MaxWishlistCalls
  /\ calls' = [calls EXCEPT !.wishlist =
                 [op |-> op, id |-> id, count |-> wishlistCalls + 1]]
  /\ UNCHANGED <<serverVars, homeVars, searchHistory, wishlist>>

AddToWishlist(car) ==
  /\ updates' = addToWishlist(car)
  /\ wishlistCall("add", car.id)

RemoveFromWishlist(carId) ==
  /\ updates' = removeFromWishlist(carId)
  /\ wishlistCall("remove", carId)

ToggleWishlist(car) ==
  /\ updates' = toggleWishlist(car)
  /\ wishlistCall("toggle", car.id)

ClearWishlist ==
  /\ updates' = Append(updates, [op |-> "clear"])
  /\ wishlistCall("clear", 0)

\* The provider re-renders: the queued updaters run in order and the
\* functions of the new render close over the result
RenderWishlist ==
  /\ updates # <<>>
  /\ wishlist' = applyUpdates(wishlist, updates)
  /\ updates' = <<>>
  /\ UNCHANGED <<serverVars, homeVars, searchHistory, calls>>

----------------------------------------------------------------------------
(* Client: the home page.  The query key of useQuery is the URL that
   buildQueryString returns; the query cache keeps one entry per key, and with
   keepPreviousData `carsData` stays the last received data while the entry
   of the current key is being fetched. *)

CARS_PER_PAGE == 10

\* application/x-www-form-urlencoded bytes that URLSearchParams escapes
formEscapes ==
  { [char |-> " ", code |-> <<"+">>],
    [char |-> "+", code |-> <<"%","2","B">>],
    [char |-> "&", code |-> <<"%","2","6">>],
    [char |-> "=", code |-> <<"%","3","D">>],
    [char |-> "%", code |-> <<"%","2","5">>],
    [char |-> ",", code |-> <<"%","2","C">>],
    [char |-> "/", code |-> <<"%","2","F">>] }

\* URLSearchParams serialisation of one name or value
formEncode(s) ==
  flatten([i \in 1..Len(s) |->
             IF \E e \in formEscapes : e.char = s[i]
             THEN (CHOOSE e \in formEscapes : e.char = s[i]).code
             ELSE <<s[i]>>])

\* The query parser of the server on one name or value: "+" is a space and
\* %XX is the escaped byte
RECURSIVE formDecode(_)
formDecode(s) ==
  IF s = <<>> THEN <<>>
  ELSE IF Head(s) = "+" THEN <<" ">> \o formDecode(Tail(s))
  ELSE IF /\ Head(s) = "%" /\ Len(s) >= 3
          /\ \E e \in formEscapes : e.code = SubSeq(s, 1, 3)
       THEN <<(CHOOSE e \in formEscapes : e.code = SubSeq(s, 1, 3)).char>>
              \o formDecode(SubSeq(s, 4, Len(s)))
  ELSE <<Head(s)>> \o formDecode(Tail(s))

searchPath == <<"/","a","p","i","/","c","a","r","s","/","s","e","a","r","c","h">>

\* buildQueryString with no escaping of names and values
buildQueryStringRaw(f, p) ==
  LET opt(cond, name, value) == IF cond THEN << <<name, value>> >> ELSE <<>>
      pairs ==
        opt(f.query # <<>>, <<"q","u","e","r","y">>, f.query)
        \o opt(Len(f.brands) > 0, <<"b","r","a","n","d","s">>, join(f.brands, ","))
        \o opt(Has(f, "minPrice"), <<"m","i","n","P","r","i","c","e">>,
               IF Has(f, "minPrice") THEN toString(f.minPrice) ELSE <<>>)
        \o opt(Has(f, "maxPrice"), <<"m","a","x","P","r","i","c","e">>,
               IF Has(f, "maxPrice") THEN toString(f.maxPrice) ELSE <<>>)
        \o opt(Len(f.fuelTypes) > 0, <<"f","u","e","l","T","y","p","e","s">>,
               join(f.fuelTypes, ","))
        \o opt(Has(f, "seatingCapacity"),
               <<"s","e","a","t","i","n","g","C","a","p","a","c","i","t","y">>,
               IF Has(f, "seatingCapacity") THEN toString(f.seatingCapacity) ELSE <<>>)
        \o opt(Len(f.bodyTypes) > 0, <<"b","o","d","y","T","y","p","e","s">>,
               join(f.bodyTypes, ","))
        \o << <<<<"s","o","r","t","B","y">>, f.sortBy>>,
              <<<<"s","o","r","t","O","r","d","e","r">>, f.sortOrder>>,
              <<<<"l","i","m","i","t">>, toString(CARS_PER_PAGE)>>,
              <<<<"o","f","f","s","e","t">>, toString(p * CARS_PER_PAGE)>> >>
  IN searchPath \o <<"?">>
       \o join([i \in 1..Len(pairs) |-> pairs[i][1] \o <<"=">> \o pairs[i][2]], "&")

\* buildQueryString: the URLSearchParams built from `filters` and `page`
buildQueryString(f, p) ==
  LET opt(cond, name, value) == IF cond THEN << <<name, value>> >> ELSE <<>>
      pairs ==
        opt(f.query # <<>>, <<"q","u","e","r","y">>, f.query)
        \o opt(Len(f.brands) > 0, <<"b","r","a","n","d","s">>, join(f.brands, ","))
        \o opt(Has(f, "minPrice"), <<"m","i","n","P","r","i","c","e">>,
               IF Has(f, "minPrice") THEN toString(f.minPrice) ELSE <<>>)
        \o opt(Has(f, "maxPrice"), <<"m","a","x","P","r","i","c","e">>,
               IF Has(f, "maxPrice") THEN toString(f.maxPrice) ELSE <<>>)
        \o opt(Len(f.fuelTypes) > 0, <<"f","u","e","l","T","y","p","e","s">>,
               join(f.fuelTypes, ","))
        \o opt(Has(f, "seatingCapacity"),
               <<"s","e","a","t","i","n","g","C","a","p","a","c","i","t","y">>,
               IF Has(f, "seatingCapacity") THEN toString(f.seatingCapacity) ELSE <<>>)
        \o opt(Len(f.bodyTypes) > 0, <<"b","o","d","y","T","y","p","e","s">>,
               join(f.bodyTypes, ","))
        \o << <<<<"s","o","r","t","B","y">>, f.sortBy>>,
              <<<<"s","o","r","t","O","r","d","e","r">>, f.sortOrder>>,
              <<<<"l","i","m","i","t">>, toString(CARS_PER_PAGE)>>,
              <<<<"o","f","f","s","e","t">>, toString(p * CARS_PER_PAGE)>> >>
  IN searchPath \o <<"?">>
       \o join([i \in 1..Len(pairs) |->
                  formEncode(pairs[i][1]) \o <<"=">> \o formEncode(pairs[i][2])], "&")

\* String of the characters of a tuple, as a record key
keyOf(name) ==
  CASE name = <<"q","u","e","r","y">> -> "query"
    [] name = <<"b","r","a","n","d","s">> -> "brands"
    [] name = <<"m","i","n","P","r","i","c","e">> -> "minPrice"
    [] name = <<"m","a","x","P","r","i","c","e">> -> "maxPrice"
    [] name = <<"f","u","e","l","T","y","p","e","s">> -> "fuelTypes"
    [] name = <<"s","e","a","t","i","n","g","C","a","p","a","c","i","t","y">> -> "seatingCapacity"
    [] name = <<"b","o","d","y","T","y","p","e","s">> -> "bodyTypes"
    [] name = <<"s","o","r","t","B","y">> -> "sortBy"
    [] name = <<"s","o","r","t","O","r","d","e","r">> -> "sortOrder"
    [] name = <<"l","i","m","i","t">> -> "limit"
    [] name = <<"o","f","f","s","e","t">> -> "offset"
    [] OTHER -> "other"

\* req.query of the request for `url`: the part after "?" cut at "&", each
\* piece cut at its first "=", names and values decoded; of a repeated name
\* the first value is kept here
reqQuery(url) ==
  LET parts == split(url, "?")
      search == IF Len(parts) >= 2 THEN join(Tail(parts), "?") ELSE <<>>
      pieces == SelectSeq(split(search, "&"), LAMBDA piece : piece # <<>>)
      nameOf(piece) == keyOf(formDecode(split(piece, "=")[1]))
      valueOf(piece) == formDecode(join(Tail(split(piece, "=")), "="))
      names == {nameOf(pieces[i]) : i \in 1..Len(pieces)}
  IN [name \in names |->
        valueOf(pieces[CHOOSE i \in 1..Len(pieces) :
                         /\ nameOf(pieces[i]) = name
                         /\ \A j \in 1..(i - 1) : nameOf(pieces[j]) # name])]

\* useState initial value of `filters`
initialFilters ==
  [query |-> <<>>, brands |-> <<>>, fuelTypes |-> <<>>, bodyTypes |-> <<>>,
   sortBy |-> sPrice, sortOrder |-> sAsc]

\* The entry of a query key whose request is on its way
fetching(f, p) == [status |-> "fetching", len |-> 0, filters |-> f, page |-> p]

queryKey == buildQueryString(filters, page)

isFetching == Has(queries, queryKey) /\ queries[queryKey].status = "fetching"

\* The render that follows a state change: useQuery observes the key of the
\* new state, starting a request when the cache has no entry for it; carsData
\* becomes the data of that entry once it has data; and the effect on
\* [carsData] runs when carsData is another object than at the last render
Rendered(f, p, more, qs) ==
  LET key == buildQueryString(f, p)
      data == IF Has(qs, key) /\ qs[key].status = "success"
              THEN <<[key |-> key, len |-> qs[key].len]>>
              ELSE carsData
  IN /\ Has(qs, key) \/ Cardinality(DOMAIN qs) < MaxFetches
     /\ filters' = f
     /\ page' = p
     /\ queries' = IF Has(qs, key) THEN qs ELSE qs @@ (key :> fetching(f, p))
     /\ carsData' = data
     /\ hasMore' = IF data # carsData /\ data # <<>> /\ data[1].len < CARS_PER_PAGE
                   THEN FALSE
                   ELSE more

\* handleSearch(query)
HandleSearch(query) ==
  /\ searchHistory' = addSearchTerm(searchHistory, query)
  /\ calls' = [calls EXCEPT !.history.added = IF isBlank(query) THEN @ ELSE <<query>>]
  /\ Rendered([filters EXCEPT !.query = query], 0, TRUE, queries)
  /\ UNCHANGED <<serverVars, wishlist, updates>>

\* handleApplyFilters of the filter panel: handleFilterChange(localFilters),
\* where localFilters carries the query the page holds
HandleFilterChange(localFilters) ==
  /\ localFilters.query = filters.query
  /\ Rendered(localFilters, 0, TRUE, queries)
  /\ UNCHANGED <<serverVars, searchHistory, wishlist, updates, calls>>

\* The observer of the last card reports it as intersecting.  The observer
\* exists only when the ref callback ran with nothing loading or fetching.
Scroll ==
  /\ ~isFetching
  /\ carsData # <<>>
  /\ hasMore /\ carsData[1].len > 0
  /\ page < MaxPage
  /\ Rendered(filters, page + 1, hasMore, queries)
  /\ UNCHANGED <<serverVars, searchHistory, wishlist, updates, calls>>

\* Lengths of the arrays the search route answers with
ResponseLens == {0, 3, CARS_PER_PAGE}

\* The response to the request of `key` arrives with `len` records; `params`
\* is what the route derived from the URL
ResponseArrives(key, len) ==
  /\ Has(queries, key)
  /\ queries[key].status = "fetching"
  /\ Rendered(filters, page, hasMore,
              [queries EXCEPT ![key] =
                 [status |-> "success", len |-> len,
                  filters |-> @.filters, page |-> @.page,
                  params |-> routeParams(reqQuery(key))]])
  /\ UNCHANGED <<serverVars, searchHistory, wishlist, updates, calls>>

\* What the search bar and the filter panel hand to the home page
HomeQueries == {<<>>, qSkyline}

HomePanelFilters == {initialFilters, [initialFilters EXCEPT !.brands = <<bToyota>>]}

\* Filter states of the panel: names with a space and with characters that
\* have a meaning in a URL, prices and seat counts absent, zero and positive
QueryFilters ==
  { [k \in DOMAIN initialFilters \cup {o[1] : o \in opts} |->
       CASE k = "query" -> q
         [] k = "brands" -> b
         [] k = "fuelTypes" -> f
         [] k = "bodyTypes" -> t
         [] k \in {"sortBy", "sortOrder"} -> initialFilters[k]
         [] OTHER -> (CHOOSE o \in opts : o[1] = k)[2]] :
      q \in {<<>>, <<" ">>, <<"r","a","n","g","e"," ","r","o","v","e","r">>,
             <<"a","&","b","=","1","+","%","2","0">>},
      b \in {<<>>, << <<"L","a","n","d"," ","R","o","v","e","r">> >>,
             << <<"M","e","r","c","e","d","e","s","-","B","e","n","z">>,
                <<"A","&","B">> >>},
      f \in {<<>>, << <<"P","e","t","r","o","l">>, <<"D","i","e","s","e","l">> >>},
      t \in {<<>>, << <<"S","U","V">> >>},
      opts \in SUBSET ({<<"minPrice", 0>>, <<"maxPrice", 20000>>}
                        \cup {<<"seatingCapacity", 0>>}) }
    \cup { [initialFilters EXCEPT !.brands = b] @@ [minPrice |-> 15000, seatingCapacity |-> 5] :
             b \in {<<>>, << <<"T","o","y","o","t","a">>, <<"K","i","a">> >>} }

----------------------------------------------------------------------------
(* Specifications *)

\* The server after module initialisation
InitServer ==
  /\ now = 0
  /\ ticks = 0
  /\ currentYear = FirstYear
  /\ cache = <<>>
  /\ transport = <<>>
  /\ reqs = [r \in Requests |-> Idle]
  /\ users = <<>>
  /\ currentUserId = 1
  /\ sessions = <<>>

\* The home page after its first render with `filters` f and `page` p: the
\* request of the first query key is on its way
InitHome(f, p) ==
  /\ filters = f
  /\ page = p
  /\ hasMore = TRUE
  /\ carsData = <<>>
  /\ queries = (buildQueryString(f, p) :> fetching(f, p))

\* The search-history hook constructed over the stored history h
InitHistory(h) ==
  /\ searchHistory = h
  /\ calls = [history |-> [op |-> "none", term |-> <<>>, count |-> 0,
                           added |-> IF h = <<>> THEN <<>> ELSE <<Head(h)>>],
              wishlist |-> [op |-> "none", id |-> 0, count |-> 0]]

InitWishlist ==
  /\ wishlist = <<>>
  /\ updates = <<>>

Init ==
  /\ InitServer
  /\ InitHome(initialFilters, 0)
  /\ InitHistory(<<>>)
  /\ InitWishlist

\* One GET /api/cars/search request, over every query string of SearchQueries
NextSearch ==
  \/ \E q \in SearchQueries : GetCarsSearch(1, q)
  \/ \E o \in FetchOutcomes : FetchSettles(1, o)
  \/ JsonSettles(1)

SpecSearch == Init /\ [][NextSearch]_vars

\* Two GET /api/cars/search requests, one after the other or overlapping,
\* possibly in different calendar years
NextPair ==
  \/ \E r \in Requests, q \in PairQueries : GetCarsSearch(r, q)
  \/ \E r \in Requests, o \in FetchOutcomes : FetchSettles(r, o)
  \/ \E r \in Requests : JsonSettles(r)
  \/ NewYear

SpecPair == Init /\ [][NextPair]_vars

\* GET /api/car-brands and GET /api/car-types requests, overlapping and
\* repeated, while time passes
NextCache ==
  \/ \E r \in Requests : GetCarBrands(r)
  \/ \E r \in Requests : GetCarTypes(r)
  \/ \E r \in Requests, o \in FetchOutcomes : FetchSettles(r, o)
  \/ \E r \in Requests : JsonSettles(r)
  \/ \E r \in Requests : Close(r)
  \/ \E d \in TickSteps : Tick(d)

SpecCache == Init /\ [][NextCache]_vars

\* Accounts are created, sessions are opened and closed, and DELETE
\* /api/user requests arrive on any session
NextAuth ==
  \/ \E username \in Usernames : CreateUser(username)
  \/ \E userId \in 1..MaxUsers : Login(userId)
  \/ \E sid \in 1..MaxSessions : Logout(sid)
  \/ \E sid \in 1..MaxSessions, stored \in BOOLEAN, loggedOut \in BOOLEAN :
       DeleteApiUser(sid, stored, loggedOut)

SpecAuth == Init /\ [][NextAuth]_vars

\* GET /api/cars/:id requests, one after the other, while time passes in
\* steps of the cache expiry
NextLookup ==
  \/ \E param \in LookupParams : GetCarById(1, param)
  \/ \E o \in FetchOutcomes : FetchSettles(1, o)
  \/ JsonSettles(1)
  \/ Close(1)
  \/ Tick(CACHE_EXPIRY)

SpecLookup == Init /\ [][NextLookup]_vars


\* The search-history hook, constructed over what localStorage holds
NextHistory ==
  \/ \E term \in SearchTerms : AddSearchTerm(term)
  \/ \E term \in SearchTerms \cup {searchHistory[i] : i \in 1..Len(searchHistory)} :
       RemoveSearchTerm(term)
  \/ ClearSearchHistory

InitStored ==
  /\ InitServer
  /\ InitHome(initialFilters, 0)
  /\ \E h \in StoredHistories : InitHistory(h)
  /\ InitWishlist

SpecHistory == InitStored /\ [][NextHistory]_vars

\* The wishlist provider
NextWishlist ==
  \/ \E car \in WishlistCars : AddToWishlist(car)
  \/ \E car \in WishlistCars : RemoveFromWishlist(car.id)
  \/ \E car \in WishlistCars : ToggleWishlist(car)
  \/ ClearWishlist
  \/ RenderWishlist

SpecWishlist == Init /\ [][NextWishlist]_vars

\* The home page: searches, applied filters, scrolling and responses
NextHome ==
  \/ \E query \in HomeQueries : HandleSearch(query)
  \/ \E localFilters \in HomePanelFilters :
       HandleFilterChange([localFilters EXCEPT !.query = filters.query])
  \/ Scroll
  \/ \E key \in DOMAIN queries, len \in ResponseLens : ResponseArrives(key, len)

SpecHome == Init /\ [][NextHome]_vars

\* The request of one filter state and page, and its response
NextQuery ==
  \E key \in DOMAIN queries, len \in ResponseLens : ResponseArrives(key, len)

InitRequest ==
  /\ InitServer
  /\ \E f \in QueryFilters, p \in 0..MaxPage : InitHome(f, p)
  /\ InitHistory(<<>>)
  /\ InitWishlist

SpecQuery == InitRequest /\ [][NextQuery]_vars
----------------------------------------------------------------------------
(* Properties *)

SearchDone(r) == reqs[r].pc = "done" /\ reqs[r].route = "search"

elements(seq) == {seq[i] : i \in 1..Len(seq)}

\* C1: when minPrice and maxPrice are both given with minPrice <= maxPrice,
\* every record of a search response has minPrice <= price <= maxPrice, on
\* the upstream path and on the fallback path alike
PriceWithinRange ==
  \A r \in Requests :
    ( /\ SearchDone(r)
      /\ Has(reqs[r].params, "minPrice")
      /\ Has(reqs[r].params, "maxPrice")
      /\ Leq(reqs[r].params.minPrice, reqs[r].params.maxPrice) )
    => \A car \in elements(reqs[r].body) :
         /\ reqs[r].params.minPrice <= car.price
         /\ car.price <= reqs[r].params.maxPrice

\* A response on the upstream path where the price filter dropped some
\* records and kept others
PriceWithinRangeWitness ==
  \E r \in Requests :
    /\ SearchDone(r)
    /\ Has(reqs[r].params, "minPrice")
    /\ Has(reqs[r].params, "maxPrice")
    /\ Leq(reqs[r].params.minPrice, reqs[r].params.maxPrice)
    /\ reqs[r].source = "upstream"
    /\ Len(reqs[r].body) > 0
    /\ \E car \in elements(reqs[r].cars) :
         /\ \E i \in 1..Len(reqs[r].params.brands) : reqs[r].params.brands[i] = car.brand
         /\ car.price > reqs[r].params.maxPrice

\* The same on the fallback path
PriceWithinRangeFallbackWitness ==
  \E r \in Requests :
    /\ SearchDone(r)
    /\ Has(reqs[r].params, "minPrice")
    /\ Has(reqs[r].params, "maxPrice")
    /\ Leq(reqs[r].params.minPrice, reqs[r].params.maxPrice)
    /\ reqs[r].source = "fallback"
    /\ Len(reqs[r].body) > 0
    /\ \E car \in elements(reqs[r].cars) : car.price < reqs[r].params.minPrice

\* C2: when a non-empty brand set is requested, every record of a search
\* response has one of the requested brands, whatever the text query is and
\* whether or not the secondary specific-model pass ran
BrandWithinRequested ==
  \A r \in Requests :
    ( /\ SearchDone(r)
      /\ Has(reqs[r].params, "brands")
      /\ Len(reqs[r].params.brands) > 0 )
    => \A car \in elements(reqs[r].body) :
         car.brand \in elements(reqs[r].params.brands)

\* A response for which the secondary pass ran, the collection held records
\* of other brands, and records were returned
BrandWithinRequestedWitness ==
  \E r \in Requests :
    /\ SearchDone(r)
    /\ Has(reqs[r].params, "brands")
    /\ Len(reqs[r].params.brands) > 0
    /\ reqs[r].consulted
    /\ Len(reqs[r].body) > 0
    /\ \E car \in elements(reqs[r].cars) :
         car.brand \notin elements(reqs[r].params.brands)


\* The filters of a request, its offset left out
filtersOf(params) == [k \in DOMAIN params \ {"offset"} |-> params[k]]

\* The unpaginated filtered and price-sorted list behind the response of
\* request r: computed from the generated batch on the fallback path, from
\* the whole upstream catalog on the upstream path
unpaginated(r) ==
  filteredCars(IF reqs[r].source = "fallback" THEN reqs[r].cars
               ELSE mapApiCars(UpstreamCatalog, reqs[r].tape),
               reqs[r].params)

\* Requests r1 and r2 ask for the first and the second page of ten of the
\* same search, and were served from the same source with the same
\* Math.random tape in the same year; an upstream that served them either
\* honoured the limit and offset of both URLs or ignored them both times
pagesOfOneSearch(r1, r2) ==
  /\ SearchDone(r1) /\ SearchDone(r2)
  /\ filtersOf(reqs[r1].params) = filtersOf(reqs[r2].params)
  /\ reqs[r1].params.limit = 10
  /\ reqs[r1].params.offset = 0
  /\ reqs[r2].params.offset = 10
  /\ reqs[r1].tape = reqs[r2].tape
  /\ reqs[r1].year = reqs[r2].year
  /\ reqs[r1].source = reqs[r2].source
  /\ reqs[r1].source = "upstream" =>
       \/ \A r \in {r1, r2} :
            reqs[r].fetched.data.items
              = slice(UpstreamCatalog, reqs[r].params.offset,
                      Plus(reqs[r].params.offset, reqs[r].params.limit))
       \/ \A r \in {r1, r2} : reqs[r].fetched.data.items = UpstreamCatalog

\* C3: the pages limit=10,offset=0 and limit=10,offset=10 of one search are
\* disjoint and their concatenation is the first 20 records of the
\* unpaginated filtered and price-sorted list, on the upstream path and on
\* the fallback path
PagesPartitionFirstTwenty ==
  \A r1, r2 \in Requests :
    pagesOfOneSearch(r1, r2) =>
      /\ elements(reqs[r1].body) \cap elements(reqs[r2].body) = {}
      /\ reqs[r1].body \o reqs[r2].body
           = SubSeq(unpaginated(r1), 1, Min(20, Len(unpaginated(r1))))

\* The (brand, model, year) triples of a collection
triples(cars) == {<<car.brand, car.model, car.year>> : car \in elements(cars)}

\* The (brands, bodyTypes) input of the fallback generator
generatorInput(params) ==
  << IF Has(params, "brands") THEN params.brands ELSE <<>>,
     IF Has(params, "bodyTypes") THEN params.bodyTypes ELSE <<>> >>

\* C5: with the upstream unavailable and the year fixed, two searches with
\* the same (brands, bodyTypes) generate the same set of (brand, model,
\* year) triples, whatever the random values of each call are
FallbackTriplesDeterministic ==
  \A r1, r2 \in Requests :
    ( /\ SearchDone(r1) /\ SearchDone(r2)
      /\ ~reqs[r1].fetched.ok /\ ~reqs[r2].fetched.ok
      /\ generatorInput(reqs[r1].params) = generatorInput(reqs[r2].params)
      /\ reqs[r1].year = reqs[r2].year )
    => triples(reqs[r1].cars) = triples(reqs[r2].cars)

\* Two fallback batches for the same input and year whose random fields differ
FallbackTriplesDeterministicWitness ==
  /\ SearchDone(1) /\ SearchDone(2)
  /\ ~reqs[1].fetched.ok /\ ~reqs[2].fetched.ok
  /\ generatorInput(reqs[1].params) = generatorInput(reqs[2].params)
  /\ reqs[1].year = reqs[2].year
  /\ reqs[1].tape # reqs[2].tape
  /\ Len(reqs[1].cars) > 0
  /\ \A i \in 1..Len(reqs[1].cars) : reqs[1].cars[i].price # reqs[2].cars[i].price

\* Number of records the fallback generator builds for a request: three per
\* model of every brand it iterates
RECURSIVE modelCount(_)
modelCount(brands) ==
  IF brands = <<>> THEN 0
  ELSE Len(modelsOf(Head(brands))) + modelCount(Tail(brands))

\* C6: when the upstream call of a search fails (network error, non-success
\* status, unparsable body), the route answers 200 with records built by the
\* fallback generator
UpstreamFailureAnswered ==
  \A r \in Requests :
    (SearchDone(r) /\ ~reqs[r].fetched.ok) =>
      /\ reqs[r].status = 200
      /\ Len(reqs[r].cars) = 3 * modelCount(brandsToFetch(reqs[r].params))
      /\ \A car \in elements(reqs[r].cars) :
           /\ car.brand \in elements(brandsToFetch(reqs[r].params))
           /\ car.model \in elements(modelsOf(car.brand))
      /\ elements(reqs[r].body) \subseteq elements(reqs[r].cars)

\* A search whose response body could not be parsed and that answered with
\* generated records
UpstreamFailureAnsweredWitness ==
  \E r \in Requests :
    /\ SearchDone(r)
    /\ ~reqs[r].fetched.ok
    /\ reqs[r].fetched.outcome = "parse"
    /\ Len(reqs[r].body) > 0

\* C7: every request the route passes to the pipeline has limit in 1..50
\* (10 when absent) and offset >= 0 (0 when absent), and no response holds
\* more than 50 records
LimitAndOffsetValidated ==
  \A r \in Requests :
    (reqs[r].pc # "idle" /\ reqs[r].route = "search") =>
      /\ reqs[r].params.limit \in 1..50
      /\ reqs[r].params.offset # NaN /\ reqs[r].params.offset >= 0
      /\ ~truthy(reqs[r].query, "limit") => reqs[r].params.limit = 10
      /\ ~truthy(reqs[r].query, "offset") => reqs[r].params.offset = 0
      /\ reqs[r].pc = "done" => Len(reqs[r].body) <= 50

Toyota == <<"T","o","y","o","t","a">>
SUV == <<"S","U","V">>

\* The request brands=Toyota&bodyTypes=SUV&limit=10&offset=0
toyotaSuvRequest(params) ==
  params = [brands |-> <<Toyota>>, bodyTypes |-> <<SUV>>, limit |-> 10, offset |-> 0]

Mustang == <<"M","u","s","t","a","n","g">>

\* C9: for query=mustang, whenever the primary substring pass keeps zero
\* records, the specific-model table is consulted and every returned record
\* is a Ford whose model contains "Mustang"
MustangSecondaryPass ==
  \A r \in Requests :
    ( /\ SearchDone(r)
      /\ hasQuery(reqs[r].params)
      /\ searchTermOf(reqs[r].params) = toLowerCase(Mustang)
      /\ reqs[r].primary = 0 )
    => /\ reqs[r].consulted
       /\ \A car \in elements(reqs[r].body) :
            /\ car.brand = <<"F","o","r","d">>
            /\ includes(car.model, Mustang)

\* query=mustang on a collection that holds Ford records, none of them a
\* Mustang
MustangSecondaryPassWitness ==
  \E r \in Requests :
    /\ SearchDone(r)
    /\ hasQuery(reqs[r].params)
    /\ searchTermOf(reqs[r].params) = toLowerCase(Mustang)
    /\ reqs[r].primary = 0
    /\ reqs[r].consulted
    /\ \E car \in elements(reqs[r].cars) : car.brand = <<"F","o","r","d">>

\* C4: a fetchFromAPI call for a URL whose entry was stored less than 15
\* minutes ago returns the stored payload without invoking the transport; a
\* call for a URL with no entry, or with an entry stored 15 minutes ago or
\* more, invokes the transport, and its successful completion replaces the
\* entry
CacheServesWithinExpiry ==
  [][ \A r \in Requests :
        /\ (reqs[r].pc = "idle" /\ reqs'[r].pc # "idle") =>
             LET url == reqs'[r].url
             IN IF Has(cache, url) /\ now - cache[url].timestamp < 15 * 60 * 1000
                THEN /\ transport' = transport
                     /\ reqs'[r].pc = "done"
                     /\ reqs'[r].fetched.ok
                     /\ reqs'[r].fetched.data = cache[url].data
                     /\ cache' = cache
                ELSE /\ Has(transport', url)
                     /\ transport'[url] = transportCount(url) + 1
                     /\ reqs'[r].pc = "fetch"
        /\ (reqs[r].pc = "json" /\ reqs'[r].pc = "done" /\ reqs'[r].fetched.ok) =>
             /\ Has(cache', reqs[r].url)
             /\ cache'[reqs[r].url] = [timestamp |-> now, data |-> reqs'[r].fetched.data]
    ]_vars

\* One request was answered from an entry one millisecond short of 15
\* minutes old, and another, made when the entry was 15 minutes old or
\* older, went to the upstream and replaced the entry
CacheServesWithinExpiryWitness ==
  \E r1, r2 \in Requests :
    /\ reqs[r1].pc = "done" /\ reqs[r2].pc = "done"
    /\ reqs[r1].url = reqs[r2].url
    /\ ~reqs[r1].invoked
    /\ reqs[r1].entryAge = 15 * 60 * 1000 - 1
    /\ reqs[r2].invoked
    /\ reqs[r2].entryAge >= 15 * 60 * 1000
    /\ reqs[r2].fetched.ok
    /\ cache[reqs[r2].url].data = reqs[r2].fetched.data

\* C10: once DELETE /api/user has answered 200 on a session, the user
\* record is gone from storage, the session is no longer authenticated, and
\* every later DELETE /api/user on that session is answered 401
DeletedSessionRejected ==
  \A sid \in 1..Len(sessions) :
    LET answers == sessions[sid].answers
    IN /\ sessions[sid].deleted # NoUser =>
            /\ sessions[sid].deleted \notin DOMAIN users
            /\ ~isAuthenticated(sid)
       /\ \A i, j \in 1..Len(answers) :
            (i < j /\ answers[i] = 200) => answers[j] = 401
       /\ (\E i \in 1..Len(answers) : answers[i] = 200) <=> sessions[sid].deleted # NoUser

\* A session on which DELETE /api/user answered 200 and then 401
DeletedSessionRejectedWitness ==
  \E sid \in 1..Len(sessions) :
    \E i \in 1..(Len(sessions[sid].answers) - 1) :
      /\ sessions[sid].answers[i] = 200
      /\ sessions[sid].answers[i + 1] = 401

\* C11: DELETE /api/user on a session that is not authenticated is answered
\* 401 and changes nothing: the user records and every session stay as they
\* were
UnauthenticatedDeleteRejected ==
  [][ \A sid \in 1..Len(sessions) :
        ( /\ ~isAuthenticated(sid)
          /\ Len(sessions') = Len(sessions)
          /\ Len(sessions'[sid].answers) = Len(sessions[sid].answers) + 1 )
        => /\ sessions'[sid].answers = Append(sessions[sid].answers, 401)
           /\ users' = users
           /\ currentUserId' = currentUserId
           /\ \A other \in 1..Len(sessions) :
                /\ sessions'[other].live = sessions[other].live
                /\ sessions'[other].user = sessions[other].user
                /\ sessions'[other].deleted = sessions[other].deleted
    ]_vars

\* A logged-out session was answered 401 while a user record and another,
\* authenticated session existed
UnauthenticatedDeleteRejectedWitness ==
  \E sid, other \in 1..Len(sessions) :
    /\ ~isAuthenticated(sid)
    /\ sessions[sid].deleted = NoUser
    /\ sessions[sid].answers = <<401>>
    /\ isAuthenticated(other)
    /\ userIdOf(other) \in DOMAIN users

LookupDone(r) == reqs[r].pc = "done" /\ reqs[r].route = "car"

\* C12: GET /api/cars/:id answers 404 exactly when getCarById returned
\* nothing, and otherwise one record whose id is the requested id, whichever
\* lookup stage produced it
LookupAnswersRequestedId ==
  \A r \in Requests :
    LookupDone(r) =>
      /\ reqs[r].status = 404 <=> reqs[r].body = <<>>
      /\ reqs[r].status # 404 =>
           /\ reqs[r].status = 200
           /\ Len(reqs[r].body) = 1
           /\ reqs[r].body[1].id = reqs[r].id

\* C17: getCarById runs the direct fetch first, the cache scan only after
\* the direct fetch failed and the broad search only after the scan found
\* nothing; it returns nothing only after all three, and after a successful
\* direct fetch neither the scan nor the broad search runs
LookupStagesInOrder ==
  \A r \in Requests :
    (reqs[r].pc # "idle" /\ reqs[r].route = "car") =>
      LET ctx == reqs[r]
          all == <<"direct", "scan", "broad">>
      IN /\ \E n \in 1..3 : ctx.stages = SubSeq(all, 1, n)
         /\ Len(ctx.stages) >= 2 => ~ctx.directOk
         /\ Len(ctx.stages) = 3 => ctx.scan = {}
         /\ ctx.stage = "broad" <=> Len(ctx.stages) = 3
         /\ ctx.pc = "done" =>
              /\ ctx.from = ctx.stages[Len(ctx.stages)]
              /\ ctx.body = <<>> => ctx.stages = all
              /\ ctx.directOk => ctx.stages = <<"direct">>
              /\ ctx.from = "scan" => ctx.body[1] \in ctx.scan

\* A lookup whose direct fetch failed, whose scan of a cache that held array
\* payloads found nothing, and whose broad search produced the record
LookupStagesInOrderWitness ==
  \E r \in Requests :
    /\ LookupDone(r)
    /\ reqs[r].from = "broad"
    /\ reqs[r].status = 200
    /\ \E u \in DOMAIN cache : cache[u].data.isArray

\* C18: a cache entry that is 15 minutes old or older is never used to
\* answer: fetchFromAPI goes to the upstream instead and a successful fetch
\* overwrites it, the cache scan of getCarById returns no record taken from
\* it, and no entry is ever removed
ExpiredEntriesNeverUsed ==
  [][ /\ DOMAIN cache \subseteq DOMAIN cache'
      /\ \A r \in Requests :
           /\ ( /\ reqs[r].pc = "idle" /\ reqs'[r].pc # "idle"
                /\ Has(cache, reqs'[r].url)
                /\ now - cache[reqs'[r].url].timestamp >= CACHE_EXPIRY )
              => reqs'[r].pc = "fetch" /\ reqs'[r].invoked
           /\ ( /\ reqs[r].pc = "json" /\ reqs'[r].pc # "json"
                /\ cache' # cache )
              => /\ cache'[reqs[r].url].timestamp = now
                 /\ \A u \in DOMAIN cache \ {reqs[r].url} : cache'[u] = cache[u]
           /\ ( /\ reqs[r].pc = "fetch" /\ reqs'[r].pc = "done"
                /\ reqs'[r].route = "car" /\ reqs'[r].from = "scan" )
              => reqs'[r].body[1] \in cacheScan(validEntries(cache, now), reqs[r].id)
    ]_vars

\* The request without its sortBy and sortOrder
unsorted(params) == [k \in DOMAIN params \ {"sortBy", "sortOrder"} |-> params[k]]

IdsPositiveAndUnique ==
  \A r \in Requests :
    SearchDone(r) =>
      /\ \A i \in 1..Len(reqs[r].body) :
           /\ reqs[r].body[i].id \in Nat \ {0}
           /\ \A j \in 1..Len(reqs[r].body) :
                reqs[r].body[i].id = reqs[r].body[j].id => i = j
      /\ reqs[r].source = "fallback" =>
           \A i \in 1..Len(reqs[r].cars) : reqs[r].cars[i].id = i

\* A fallback response of several records that are not the first of the batch
IdsPositiveAndUniqueWitness ==
  \E r \in Requests :
    /\ SearchDone(r)
    /\ reqs[r].source = "fallback"
    /\ Len(reqs[r].body) >= 2
    /\ \E i \in 1..Len(reqs[r].body) : reqs[r].body[i].id > Len(reqs[r].body)

\* C15: every record the mapper produces has price >= 0, the price being
\* 10000 + (year - 2000) * 1000 + r with r an integer in [0, 5000)
MappedPriceNonNegative ==
  \A r \in Requests :
    SearchDone(r) =>
      \A i \in 1..Len(reqs[r].cars) :
        LET car == reqs[r].cars[i]
        IN /\ car.price - (10000 + (car.year - 2000) * 1000) \in 0..4999
           /\ car.price >= 0

\* C16: after any sequence of createUser calls no two stored user records
\* have the same username and no two have the same id
StoredUsersUnique ==
  \A a \in DOMAIN users : \A b \in DOMAIN users :
    (users[a].username = users[b].username \/ users[a].id = users[b].id) => a = b

\* The requests whose upstream call for the URL is pending
inFlight(url) ==
  {q \in Requests : reqs[q].pc \in {"fetch", "json"} /\ reqs[q].url = url}

\* C19: a request for a URL with no valid cache entry, made while another
\* request's upstream call for the same URL is pending, issues its own
\* upstream call and leaves the pending one as it is; every pending call is
\* a call of its own; and each successful completion writes the cache entry
ConcurrentCallsNotCoalesced ==
  [][ /\ \A r \in Requests :
           LET url == reqs'[r].url
           IN ( /\ reqs[r].pc = "idle" /\ reqs'[r].pc # "idle"
                /\ inFlight(url) # {}
                /\ ~(Has(cache, url) /\ now - cache[url].timestamp < 15 * 60 * 1000) ) =>
                  /\ reqs'[r].pc = "fetch"
                  /\ transport'[url] = transport[url] + 1
                  /\ \A q \in inFlight(url) : reqs'[q] = reqs[q]
                  /\ cache' = cache
      /\ \A url \in DOMAIN transport' :
           Cardinality({q \in Requests : /\ reqs'[q].pc \in {"fetch", "json"}
                                         /\ reqs'[q].url = url}) <= transport'[url]
      /\ \A r \in Requests :
           (reqs[r].pc = "json" /\ reqs'[r].pc = "done" /\ reqs'[r].fetched.ok) =>
             /\ Has(cache', reqs[r].url)
             /\ cache'[reqs[r].url].timestamp = now
             /\ cache'[reqs[r].url].data = reqs'[r].fetched.data
    ]_vars

\* Two requests for one URL were in flight together, each with a call of its
\* own: one has completed and written the entry while the other, started when
\* there was no entry, is still pending
ConcurrentCallsNotCoalescedWitness ==
  \E r1, r2 \in Requests :
    /\ r1 # r2
    /\ reqs[r1].pc = "done" /\ reqs[r1].invoked /\ reqs[r1].fetched.ok
    /\ reqs[r2].pc \in {"fetch", "json"} /\ reqs[r2].entryAge = NoEntry
    /\ reqs[r1].url = reqs[r2].url
    /\ transport = (reqs[r1].url :> 2)
    /\ cache[reqs[r1].url].data = reqs[r1].fetched.data

\* C20: a search request issues at most one upstream call; when that call
\* fails the request is answered by the fallback generator and the upstream
\* has been called once, not twice
SearchCallsUpstreamOnce ==
  \A r \in Requests :
    (reqs[r].pc # "idle" /\ reqs[r].route = "search") =>
      /\ transportTotal <= 1
      /\ reqs[r].pc \in {"fetch", "json"} => transport = (reqs[r].url :> 1)
      /\ (reqs[r].pc = "done" /\ ~reqs[r].fetched.ok) =>
           /\ reqs[r].source = "fallback"
           /\ reqs[r].cars = fallbackCars(reqs[r].params, reqs[r].year, reqs[r].tape)
           /\ transport = (reqs[r].url :> 1)

\* A search whose upstream call failed on the network and that answered
\* generated records after that one call
SearchCallsUpstreamOnceWitness ==
  \E r \in Requests :
    /\ SearchDone(r)
    /\ reqs[r].fetched.outcome \in FetchOutcomes \ {"ok"}
    /\ reqs[r].source = "fallback"
    /\ transportTotal = 1
    /\ Len(reqs[r].body) > 0

\* Entries of the specific-model table as brand and model
specificEntries ==
  { [key |-> qSkyline, brand |-> <<"N","i","s","s","a","n">>, model |-> <<"G","T","R">>],
    [key |-> qMustang, brand |-> <<"F","o","r","d">>, model |-> Mustang],
    [key |-> qModel3, brand |-> <<"T","e","s","l","a">>,
     model |-> <<"M","o","d","e","l"," ","3">>],
    [key |-> qRangeRover, brand |-> <<"L","a","n","d"," ","R","o","v","e","r">>,
     model |-> <<"R","a","n","g","e"," ","R","o","v","e","r">>] }

\* C21: when the primary pass keeps no record and the query is a key of the
\* specific-model table, the text stage keeps exactly the records whose brand
\* equals, ignoring case, the brand of the entry and whose model contains the
\* model of the entry
SecondaryPassKeepsEntry ==
  \A r \in Requests : \A e \in specificEntries :
    ( /\ SearchDone(r)
      /\ hasQuery(reqs[r].params)
      /\ searchTermOf(reqs[r].params) = e.key
      /\ ~reqs[r].threw
      /\ reqs[r].primary = 0 )
    => textStage(reqs[r].cars, reqs[r].params) =
         SelectSeq(reqs[r].cars, LAMBDA car :
           /\ toLowerCase(car.brand) = toLowerCase(e.brand)
           /\ includes(toLowerCase(car.model), toLowerCase(e.model)))

\* The records of the collection that pass every filter after the text stage
passLaterFilters(cars, params) ==
  elements(brandFilter(cars, params)) \cap elements(priceFilter(cars, params))
    \cap elements(fuelTypeFilter(cars, params))
    \cap elements(seatingFilter(cars, params))
    \cap elements(bodyTypeFilter(cars, params))

\* C22: the text stage reads the collection before any other filter: when
\* the primary pass keeps a record of the collection the response holds only
\* records the primary pass keeps (the secondary pass is not attempted, even
\* if a later filter empties the result); when it keeps none and the query is
\* a key of the table, only records the secondary pass keeps; and in both
\* cases the response passes every later filter, is sorted and is one page
TextStageBeforeFilters ==
  \A r \in Requests :
    (SearchDone(r) /\ hasQuery(reqs[r].params) /\ ~reqs[r].threw) =>
      LET cars == reqs[r].cars
          params == reqs[r].params
          term == searchTermOf(params)
          primary == primaryPass(cars, term)
          body == reqs[r].body
      IN /\ reqs[r].consulted <=> (Len(primary) = 0 /\ hasSpecificModel(term))
         /\ Len(primary) > 0 => elements(body) \subseteq elements(primary)
         /\ (Len(primary) = 0 /\ hasSpecificModel(term)) =>
              elements(body) \subseteq elements(secondaryPass(cars, term))
         /\ (Len(primary) = 0 /\ ~hasSpecificModel(term)) => body = <<>>
         /\ elements(body) \subseteq passLaterFilters(cars, params)
         /\ \A i \in 1..(Len(body) - 1) : body[i].price <= body[i + 1].price
         /\ Len(body) <= params.limit

\* The query is a key of the table, the primary pass kept records, the brand
\* filter removed them all, the collection holds records of the requested
\* brand, and the response is empty: the secondary pass was not attempted
TextStageBeforeFiltersWitness ==
  \E r \in Requests :
    /\ SearchDone(r) /\ hasQuery(reqs[r].params) /\ ~reqs[r].threw
    /\ hasSpecificModel(searchTermOf(reqs[r].params))
    /\ reqs[r].primary > 0
    /\ ~reqs[r].consulted
    /\ Has(reqs[r].params, "brands")
    /\ Len(brandFilter(reqs[r].cars, reqs[r].params)) > 0
    /\ reqs[r].body = <<>>

\* C23: on the fallback path, when exactly one body type is requested every
\* generated record carries it; in every other case the records of year
\* index 0 and 2 are Sedan and the record of year index 1 is SUV
FallbackBodyTypes ==
  \A r \in Requests :
    (SearchDone(r) /\ reqs[r].source = "fallback") =>
      \A i \in 1..Len(reqs[r].cars) :
        IF Has(reqs[r].params, "bodyTypes") /\ Len(reqs[r].params.bodyTypes) = 1
        THEN reqs[r].cars[i].bodyType = reqs[r].params.bodyTypes[1]
        ELSE reqs[r].cars[i].bodyType =
               (IF (i - 1) % 3 = 1 THEN <<"S","U","V">> ELSE <<"S","e","d","a","n">>)

\* C24: when bodyTypes is non-empty every returned record has a body type
\* of the requested set, and a record without body type is not returned
BodyTypeWithinRequested ==
  \A r \in Requests :
    ( /\ SearchDone(r)
      /\ Has(reqs[r].params, "bodyTypes")
      /\ Len(reqs[r].params.bodyTypes) > 0 )
    => \A car \in elements(reqs[r].body) :
         /\ car.bodyType # Null
         /\ car.bodyType \in elements(reqs[r].params.bodyTypes)

\* A response to a body-type request on a collection that holds a record
\* without body type which passes the brand filter, and records of a body
\* type that was not requested
BodyTypeWithinRequestedWitness ==
  \E r \in Requests :
    /\ SearchDone(r)
    /\ Has(reqs[r].params, "bodyTypes")
    /\ Len(reqs[r].params.bodyTypes) > 0
    /\ ~Has(reqs[r].params, "fuelTypes")
    /\ ~Has(reqs[r].params, "seatingCapacity")
    /\ \E car \in elements(brandFilter(reqs[r].cars, reqs[r].params)) :
         car.bodyType = Null
    /\ \E car \in elements(brandFilter(reqs[r].cars, reqs[r].params)) :
         car.bodyType # Null /\ car.bodyType \notin elements(reqs[r].params.bodyTypes)
    /\ Len(reqs[r].body) > 0

\* C26 as stated: after every call of the hook the history holds at most 10
\* terms, no two of them equal ignoring case, and the most recently added
\* non-blank term is at index 0; addSearchTerm with an empty or
\* whitespace-only term leaves the history unchanged
HistoryBoundedUniqueRecent ==
  [][ /\ Len(searchHistory') <= 10
      /\ \A i, j \in 1..Len(searchHistory') :
           toLowerCase(searchHistory'[i]) = toLowerCase(searchHistory'[j]) => i = j
      /\ calls'.history.added # <<>> =>
           /\ Len(searchHistory') > 0
           /\ searchHistory'[1] = calls'.history.added[1]
      /\ ( /\ calls'.history.count # calls.history.count
           /\ calls'.history.op = "add"
           /\ trim(calls'.history.term) = <<>> ) => searchHistory' = searchHistory
    ]_vars

\* C26 amended: after every call of the hook the history holds at most 10
\* terms, no two of them equal ignoring case; right after addSearchTerm with
\* a non-blank term that term is at index 0; addSearchTerm with an empty or
\* whitespace-only term leaves the history unchanged
HistoryBoundedUniqueAfterAdd ==
  [][ /\ Len(searchHistory') <= 10
      /\ \A i, j \in 1..Len(searchHistory') :
           toLowerCase(searchHistory'[i]) = toLowerCase(searchHistory'[j]) => i = j
      /\ ( /\ calls'.history.count # calls.history.count
           /\ calls'.history.op = "add"
           /\ trim(calls'.history.term) # <<>> ) =>
             /\ Len(searchHistory') > 0
             /\ searchHistory'[1] = calls'.history.term
      /\ ( /\ calls'.history.count # calls.history.count
           /\ calls'.history.op = "add"
           /\ trim(calls'.history.term) = <<>> ) => searchHistory' = searchHistory
    ]_vars

\* Two new terms were added to a history of nine: the history holds ten
\* terms, the last added first, and the oldest term is gone
HistoryBoundedUniqueAfterAddWitness ==
  /\ calls.history.count = 2
  /\ calls.history.op = "add"
  /\ Len(searchHistory) = 10
  /\ searchHistory[1] = calls.history.term
  /\ \A i \in 1..Len(searchHistory) : searchHistory[i] # earlierSearches[1]

\* The wishlist as React holds it: the rendered array with the queued
\* updaters applied
wishlistState == applyUpdates(wishlist, updates)

\* C30: after every call of the wishlist context, two calls before a
\* re-render included, the wishlist never holds two cars with the same id;
\* toggleWishlist removes the entry when a car with that id is in the list
\* and adds the car when none is
WishlistIdsUnique ==
  [][ LET before == wishlistState
          after == applyUpdates(wishlist', updates')
      IN /\ \A i, j \in 1..Len(after) : after[i].id = after[j].id => i = j
         /\ ( /\ calls'.wishlist.count # calls.wishlist.count
              /\ calls'.wishlist.op = "toggle" ) =>
                IF \E i \in 1..Len(before) : before[i].id = calls'.wishlist.id
                THEN after = SelectSeq(before, LAMBDA car : car.id # calls'.wishlist.id)
                ELSE /\ Len(after) = Len(before) + 1
                     /\ SubSeq(after, 1, Len(before)) = before
                     /\ after[Len(after)].id = calls'.wishlist.id
    ]_vars

\* A response with fewer than 10 records has been received for the query
\* and filters the page holds
shortResponseReceived ==
  \E key \in DOMAIN queries :
    /\ queries[key].status = "success"
    /\ queries[key].filters = filters
    /\ queries[key].len < 10

\* C25: once a response with fewer than 10 records has been received for
\* the current query and filters, the page number is not incremented (no
\* request with a larger offset is issued) until the query or a filter value
\* changes
PageStopsAfterShortResponse ==
  [][ (shortResponseReceived /\ filters' = filters) => page' <= page ]_vars

\* C27: the parameters the search route derives from the URL that
\* buildQueryString builds equal the filter state: the same query (empty
\* means absent), the same brand, fuel-type and body-type lists in the same
\* order (empty means absent), the same minPrice, maxPrice and
\* seatingCapacity (absent stays absent, 0 stays 0), limit 10 and
\* offset = page * 10
RouteParamsEqualFilters ==
  \A key \in DOMAIN queries :
    queries[key].status = "success" =>
      LET f == queries[key].filters
          params == queries[key].params
      IN /\ Has(params, "query") <=> f.query # <<>>
         /\ Has(params, "query") => params.query = f.query
         /\ \A k \in {"brands", "fuelTypes", "bodyTypes"} :
              /\ Has(params, k) <=> f[k] # <<>>
              /\ Has(params, k) => params[k] = f[k]
         /\ \A k \in {"minPrice", "maxPrice", "seatingCapacity"} :
              /\ Has(params, k) <=> Has(f, k)
              /\ Has(params, k) => params[k] = f[k]
         /\ params.limit = 10
         /\ params.offset = queries[key].page * 10

\* The response to a request of page 1 for a filter state with a brand name
\* of two words, a brand name holding "&", a query holding "&", "=", "+"
\* and "%", and a minPrice of 0
RouteParamsEqualFiltersWitness ==
  \E key \in DOMAIN queries :
    /\ queries[key].status = "success"
    /\ queries[key].page = 1
    /\ Len(queries[key].filters.brands) = 2
    /\ \E i \in 1..2 : includes(queries[key].filters.brands[i], <<"&">>)
    /\ includes(queries[key].filters.query, <<"+","%">>)
    /\ Has(queries[key].filters, "minPrice")
    /\ queries[key].filters.minPrice = 0
    /\ queries[key].params.minPrice = 0

\* The fetchFromAPI call of request r fails in this step
failingStep(r) ==
  /\ reqs[r].pc \in {"fetch", "json"}
  /\ reqs'[r].pc = "done"
  /\ ~reqs'[r].fetched.ok

\* C28 as stated: a failing fetchFromAPI call leaves the cache map
\* unchanged, and the next call for the same URL invokes the upstream
\* transport again (the cache holds no entry that would serve it)
FailureNeverCached ==
  [][ \A r \in Requests :
        failingStep(r) =>
          /\ cache' = cache
          /\ ~( /\ Has(cache', reqs[r].url)
                /\ now' - cache'[reqs[r].url].timestamp < 15 * 60 * 1000 )
    ]_vars

\* C28 amended: a failing fetchFromAPI call leaves the cache map unchanged,
\* and the next call for the same URL invokes the upstream transport again
\* unless the cache holds a valid entry that another call wrote after the
\* failing call had started
FailureLeavesCache ==
  [][ \A r \in Requests :
        failingStep(r) =>
          /\ cache' = cache
          /\ reqs[r].invoked
          /\ ( /\ Has(cache', reqs[r].url)
               /\ now' - cache'[reqs[r].url].timestamp < 15 * 60 * 1000 ) =>
                 \/ reqs[r].entryAge = NoEntry
                 \/ now' - cache'[reqs[r].url].timestamp < reqs[r].entryAge
    ]_vars

\* A call failed on an unparsable body while the cache held an expired
\* entry for its URL, and the entry is still the expired one
FailureLeavesCacheWitness ==
  \E r \in Requests :
    /\ reqs[r].pc = "done"
    /\ reqs[r].invoked
    /\ ~reqs[r].fetched.ok
    /\ reqs[r].fetched.outcome = "parse"
    /\ reqs[r].entryAge # NoEntry
    /\ Has(cache, reqs[r].url)
    /\ now - cache[reqs[r].url].timestamp >= 15 * 60 * 1000

\* C29: every change of a cache entry is the store of one successful
\* response: the payload of that response paired with the time at which it
\* was received; every successful response is stored when it completes, so
\* the entry of a URL holds the response that completed last; and no entry
\* is removed
CacheEntriesWhole ==
  [][ /\ DOMAIN cache \subseteq DOMAIN cache'
      /\ \A url \in DOMAIN cache' :
           (~Has(cache, url) \/ cache'[url] # cache[url]) =>
             \E r \in Requests :
               /\ reqs[r].pc = "json" /\ reqs'[r].pc # "json"
               /\ reqs[r].url = url
               /\ reqs'[r].fetched.ok
               /\ cache'[url].data = reqs'[r].fetched.data
               /\ cache'[url].timestamp = now
      /\ \A r \in Requests :
           ( /\ reqs[r].pc = "json" /\ reqs'[r].pc # "json"
             /\ reqs'[r].fetched.ok ) =>
               cache'[reqs[r].url] = [timestamp |-> now, data |-> reqs'[r].fetched.data]
    ]_vars

\* Two fetches of one URL were in flight together and received different
\* payloads at different times: the entry holds the payload of one of them
\* with a timestamp later than the start of the process
CacheEntriesWholeWitness ==
  \E r1, r2 \in Requests :
    /\ r1 # r2
    /\ reqs[r1].pc = "done" /\ reqs[r2].pc = "done"
    /\ reqs[r1].url = reqs[r2].url
    /\ reqs[r1].invoked /\ reqs[r2].invoked
    /\ reqs[r1].entryAge = NoEntry /\ reqs[r2].entryAge = NoEntry
    /\ reqs[r1].fetched.ok /\ reqs[r2].fetched.ok
    /\ reqs[r1].fetched.data # reqs[r2].fetched.data
    /\ cache[reqs[r2].url].data = reqs[r2].fetched.data
    /\ cache[reqs[r2].url].timestamp > 0

=============================================================================
